---- MODULE Spec2Model ----
(***************************************************************************)
(* The sequential tool-calling loop of AIGenerator.generate_response       *)
(* (backend/ai_generator.py) and the tool registry it executes tools with  *)
(* (backend/search_tools.py: ToolManager, CourseSearchTool, NutritionTool), *)
(* as state machines.                                                      *)
(*                                                                         *)
(* Spec follows one generate_response call from the construction of the    *)
(* message list to its return or to the exception that ends it, with the   *)
(* registry abstract.  RegistrySpec follows a caller that registers tools  *)
(* and then executes them, reads and resets their citations.  RoundSpec    *)
(* follows one generate_response call whose tool requests are executed by  *)
(* the registry.  TerminationSpec is Spec with every enabled step taken in *)
(* the end.  ConcurrentSpec follows two generate_response calls on two     *)
(* threads against one generator and one registry.  TokenSpec follows the  *)
(* threads that call TokenManager.get_token (backend/token_manager.py) and *)
(* the clock.  AuthSpec follows the clients of one AuthManager             *)
(* (backend/auth.py) and the clock its sessions expire by.                 *)
(* The completion endpoint, the token endpoint, the search                 *)
(* provider and the remote nutrition service are the environment: every    *)
(* reply, fault and outcome they can produce is a nondeterministic choice. *)
(***************************************************************************)
EXTENDS Integers, Sequences, FiniteSets, TLC

\* ---------------------------------------------------------------- bounds
\* max_tool_rounds ranges over 0..MaxRounds
MaxRounds == 2
\* a reply carries at most MaxCalls tool requests
MaxCalls == 2

\* ------------------------------------------------------------- constants
\* Python's None
None == "<None>"

SYSTEM_PROMPT == "You are an AI assistant specialized in course materials"

\* ------------------------------------------------------------- json.loads
\* An argument payload is the token sequence of its text: "s" is a string
\* literal, "n" a number, the rest punctuation.
ObjectArgs == <<"{", "s", ":", "s", "}">>
ArrayArgs == <<"[", "n", "]">>
BrokenArgs == <<"{", "s", ":">>
Payloads == {ObjectArgs, ArrayArgs, BrokenArgs}

ParseFail == [ok |-> FALSE, type |-> None, next |-> 0]

RECURSIVE ParseValue(_, _), ParseElements(_, _), ParseMembers(_, _)

\* one JSON value starting at token i: its Python type and the next index
ParseValue(t, i) ==
    IF i > Len(t) THEN ParseFail
    ELSE CASE t[i] = "s" -> [ok |-> TRUE, type |-> "str", next |-> i + 1]
           [] t[i] = "n" -> [ok |-> TRUE, type |-> "int", next |-> i + 1]
           [] t[i] = "[" ->
                IF i + 1 <= Len(t) /\ t[i + 1] = "]"
                THEN [ok |-> TRUE, type |-> "list", next |-> i + 2]
                ELSE ParseElements(t, i + 1)
           [] t[i] = "{" ->
                IF i + 1 <= Len(t) /\ t[i + 1] = "}"
                THEN [ok |-> TRUE, type |-> "dict", next |-> i + 2]
                ELSE ParseMembers(t, i + 1)
           [] OTHER -> ParseFail

\* value ("," value)* "]"
ParseElements(t, i) ==
    LET v == ParseValue(t, i) IN
    IF ~v.ok \/ v.next > Len(t) THEN ParseFail
    ELSE IF t[v.next] = "]" THEN [ok |-> TRUE, type |-> "list", next |-> v.next + 1]
    ELSE IF t[v.next] = "," THEN ParseElements(t, v.next + 1)
    ELSE ParseFail

\* string ":" value ("," string ":" value)* "}"
ParseMembers(t, i) ==
    IF i + 1 > Len(t) \/ t[i] # "s" \/ t[i + 1] # ":" THEN ParseFail
    ELSE LET v == ParseValue(t, i + 2) IN
         IF ~v.ok \/ v.next > Len(t) THEN ParseFail
         ELSE IF t[v.next] = "}" THEN [ok |-> TRUE, type |-> "dict", next |-> v.next + 1]
         ELSE IF t[v.next] = "," THEN ParseMembers(t, v.next + 1)
         ELSE ParseFail

\* json.loads(text): raises JSONDecodeError unless the whole text is one value
json_loads(t) ==
    LET v == ParseValue(t, 1) IN
    IF v.ok /\ v.next = Len(t) + 1
    THEN [raises |-> FALSE, type |-> v.type]
    ELSE [raises |-> TRUE, type |-> None]

\* ------------------------------------------------------------ input sets
Query == "What is Anthropic?"
\* conversation_history: absent, or a formatted history text
Histories == {None, "User: hi"}
\* tools: absent, or the registry's list of tool definitions
TOOLS == "tool definitions"
ToolsArgs == {None, TOOLS}
\* tool_manager: absent, or a registry
MANAGER == "ToolManager"
Managers == {None, MANAGER}

\* message.content of a completion reply that is an answer (nullable)
Contents == {None, "", "Here is the answer."}
\* message.content of a completion reply that requests tools (nullable)
ToolReplyContents == {None, "Let me search for that."}

\* tool_call.id of the i-th request of a reply: unique within the reply
CallId(i) == "call_" \o ToString(i)
ToolName == "search_course_content"
ToolCall(i, payload) == [id |-> CallId(i), name |-> ToolName, arguments |-> payload]

\* message.tool_calls of a completion reply: empty, or up to MaxCalls requests
CallSeqs ==
    UNION {{[i \in 1..k |-> ToolCall(i, p[i])] : p \in [1..k -> Payloads]} : k \in 0..MaxCalls}

\* what tool_manager.execute_tool can do once it is invoked
ToolOutcomes ==
    {[raises |-> FALSE, text |-> "Search results"],
     [raises |-> TRUE, text |-> "Database connection failed"]}

\* --------------------------------------------------------------- messages
Message(role, content) ==
    [role |-> role, content |-> content, tool_calls |-> <<>>, tool_call_id |-> None]

AssistantMessage(content, calls) ==
    [role |-> "assistant", content |-> content, tool_calls |-> calls, tool_call_id |-> None]

ToolMessage(id, content) ==
    [role |-> "tool", content |-> content, tool_calls |-> <<>>, tool_call_id |-> id]

\* messages as built before the loop: the history note only for a truthy history
InitialMessages(query, history) ==
    <<Message("system", SYSTEM_PROMPT)>>
      \o (IF history \notin {None, ""}
          THEN <<Message("system", "Previous conversation:\n" \o history)>>
          ELSE <<>>)
      \o <<Message("user", query)>>

\* the new message written over the last one
AppendMessageOverLast(msgs, message) == [msgs EXCEPT ![Len(msgs)] = message]

\* messages.append(...)
AppendMessage(msgs, message) == Append(msgs, message)

InvalidArgumentsText == "Error: Invalid tool arguments format"
ExecutionFailedText(detail) == "Error: Tool execution failed - " \o detail

\* str(e) of the exceptions Python itself raises at the call site
NoManagerDetail == "'NoneType' object has no attribute 'execute_tool'"
NotMappingDetail == "argument after ** must be a mapping"

\* the content passed on as it is, None included
TextOrEmptyUnchecked(content) == content

\* `x or ""`
TextOrEmpty(content) == IF content \in {None, ""} THEN "" ELSE content

\* ------------------------------------------------------- control decisions
\* off by one: one round more than the limit
LoopConditionOffByOne(round, limit) == round <= limit

\* while current_round < max_tool_rounds
LoopCondition(round, limit) == round < limit

\* if not assistant_message.tool_calls
NoToolCalls(calls) == Len(calls) = 0

\* the registry left out of the condition
RoundOffersToolsWithoutManager(tls, manager) == tls # None

\* if tools and tool_manager (round request)
RoundOffersTools(tls, manager) == tls # None /\ manager # None

\* the synthesis request made without tools
SynthesisOffersNothing(tls) == FALSE

\* if tools (synthesis request)
SynthesisOffersTools(tls) == tls # None

\* the for loop that never leaves its first request
NextCallRepeats(i, failed, count) == i

\* the for loop left at the first failed request
NextCallStopsAtFailure(i, failed, count) == IF failed THEN count + 1 ELSE i + 1

\* for tool_call in assistant_message.tool_calls: the index after call i
NextCall(i, failed, count) == i + 1

\* the failure flag left out of the break condition
StopIterationIgnoresFailure(round, limit, failed) == round >= limit

\* if current_round >= max_tool_rounds or tool_execution_failed: break
StopIteration(round, limit, failed) == round >= limit \/ failed

\* the synthesis decided on the wrong role
NeedsSynthesisAfterAssistant(msgs) == msgs[Len(msgs)].role = "assistant"

\* the last message returned whatever its role
NeedsSynthesisNever(msgs) == FALSE

\* if messages[-1]["role"] == "tool"
NeedsSynthesis(msgs) == msgs[Len(msgs)].role = "tool"

\* ------------------------------------------------------- CourseSearchTool
\* the search provider returns at most MaxHits hits
MaxHits == 2

\* dict.get(key, default) on a record whose absent keys are absent fields
HasKey(d, k) == k \in DOMAIN d

\* `text in s`
Contains(s, text) ==
    \E i \in 1..(Len(s) - Len(text) + 1) : SubSeq(s, i, i + Len(text) - 1) = text

RECURSIVE Join(_, _)
\* sep.join(parts)
Join(sep, parts) ==
    IF Len(parts) = 0 THEN ""
    ELSE IF Len(parts) = 1 THEN parts[1]
    ELSE parts[1] \o sep \o Join(sep, Tail(parts))

CourseTitle == "Test Course"
LessonLink == "https://example.com/lesson0"

\* VectorStore.get_lesson_link: the catalog has a link for lesson 0 only
get_lesson_link(course_title, lesson_num) ==
    IF course_title = CourseTitle /\ lesson_num = 0 THEN LessonLink ELSE None

\* metadata of one hit: the lesson number may be absent
HitMetadata ==
    {[course_title |-> CourseTitle, lesson_number |-> 0],
     [course_title |-> CourseTitle]}
HitDocument == "Welcome to the course"

SearchResults(documents, metadata, error) ==
    [documents |-> documents, metadata |-> metadata, error |-> error]

ProviderError == "No course found matching 'NonExistent'"

\* what VectorStore.search can return: a named error, no hit, or 1..MaxHits hits
ProviderResults ==
    {SearchResults(<<>>, <<>>, ProviderError), SearchResults(<<>>, <<>>, None)}
      \cup UNION {{SearchResults([i \in 1..k |-> HitDocument], m, None) :
                     m \in [1..k -> HitMetadata]} : k \in 1..MaxHits}

\* SearchResults.is_empty
is_empty(results) == Len(results.documents) = 0

\* the title and the lesson suffix both headers and citations are built from
SourceText(meta) ==
    (IF HasKey(meta, "course_title") THEN meta.course_title ELSE "unknown")
      \o (IF HasKey(meta, "lesson_number")
          THEN " - Lesson " \o ToString(meta.lesson_number)
          ELSE "")

\* the citation of one hit: its "url" key only when the catalog has a link
SourceInfo(meta) ==
    LET lesson_link ==
            IF HasKey(meta, "lesson_number")
            THEN get_lesson_link(IF HasKey(meta, "course_title")
                                 THEN meta.course_title ELSE "unknown",
                                 meta.lesson_number)
            ELSE None
    IN IF lesson_link \notin {None, ""}
       THEN [text |-> SourceText(meta), url |-> lesson_link]
       ELSE [text |-> SourceText(meta)]

\* the citations of the hits, one per hit in hit order
SourcesOf(results) ==
    [i \in 1..Len(results.documents) |-> SourceInfo(results.metadata[i])]

\* the citations added to those the tool already holds
StoreSourcesAppending(held, sources) == held \o sources

\* the citations kept from the first execution on
StoreSourcesOnce(held, sources) == IF Len(held) = 0 THEN sources ELSE held

\* self.last_sources = sources
StoreSources(held, sources) == sources

\* CourseSearchTool._format_results: the text returned and the buffer left
_format_results(results, held) ==
    [text |-> Join("\n\n",
                   [i \in 1..Len(results.documents) |->
                      "[" \o SourceText(results.metadata[i]) \o "]\n"
                          \o results.documents[i]]),
     last_sources |-> StoreSources(held, SourcesOf(results))]

\* the filters an execute call can carry besides the query
SearchArgs ==
    {[query |-> Query], [query |-> Query, course_name |-> "MCP"],
     [query |-> Query, lesson_number |-> 0],
     [query |-> Query, course_name |-> "MCP", lesson_number |-> 1]}

\* the message for an empty result set: a filter is named when it is truthy
NoContentText(args) ==
    "No relevant content found"
      \o (IF HasKey(args, "course_name") /\ args.course_name # ""
          THEN " in course '" \o args.course_name \o "'" ELSE "")
      \o (IF HasKey(args, "lesson_number") /\ args.lesson_number # 0
          THEN " in lesson " \o ToString(args.lesson_number) ELSE "")
      \o "."

\* the provider's error handed on only behind a marker
SearchErrorTextMarked(error) == "Search failed: " \o error

\* if results.error: return results.error
SearchErrorText(error) == error

\* the citations dropped when a search brings nothing
SourcesDropped(held) == <<>>

\* execute returns the error or the no-content text before _format_results
\* runs: self.last_sources is not assigned
SourcesKept(held) == held

\* CourseSearchTool.execute(**args) given the provider's result and the buffer
\* the tool holds: the text returned and the buffer left
CourseSearchTool_execute(args, results, held) ==
    IF results.error \notin {None, ""}
    THEN [text |-> SearchErrorText(results.error), last_sources |-> SourcesKept(held)]
    ELSE IF is_empty(results)
    THEN [text |-> NoContentText(args), last_sources |-> SourcesKept(held)]
    ELSE _format_results(results, held)

\* ---------------------------------------------------------- NutritionTool
\* a remote answer cites at most MaxLinks documents
MaxLinks == 2

NutritionAnswer == "Spinach contains vitamin A."
LinkText(i) == "Document " \o ToString(i) \o ".pdf"
LinkHref(i) == "/get_document/doc" \o ToString(i) \o ".pdf"
\* the answer followed by its cited-sources block of m embedded links
CitedAnswer(m) ==
    NutritionAnswer \o "\n\nCited Sources:\n"
      \o Join("\n", [i \in 1..m |->
                       "<a href=\"" \o LinkHref(i) \o "\" target=\"_blank\">"
                         \o LinkText(i) \o "</a>"])

\* what the remote side of one execute can do.  kind: the credential provider
\* raises, requests.post raises (timeout, transport), response.json() raises
\* (json's error, or requests' own which is also a RequestException), or the
\* body is a dict with an answer (citing m documents), a dict without one, or
\* no dict
Remote(kind, m) == [kind |-> kind, links |-> m]
RemoteOutcomes ==
    {Remote(k, 0) : k \in {"token_fault", "timeout", "transport", "bad_json",
                           "bad_json_requests", "answer", "unknown_shape", "non_dict"}}
      \cup {Remote("answer", m) : m \in 1..MaxLinks}

NotConfiguredText == "Error: Authentication not configured for nutrition queries."
TimeoutText == "Error: Nutrition API request timed out. Please try again."
ConnectFailedText(detail) == "Error: Failed to connect to nutrition API - " \o detail
InvalidFormatText == "Error: Invalid response format from nutrition API."
UnexpectedText(detail) == "Error: Unexpected error while querying nutrition API - " \o detail

\* NutritionTool.execute(question) of a tool built with or without a
\* credential provider: the text returned, whether requests.post was invoked,
\* and the last_sources attribute left as it was (the method never touches it)
NutritionTool_execute(has_token_manager, remote, held) ==
    LET reply(text, sent) == [text |-> text, sent |-> sent, last_sources |-> held] IN
    IF ~has_token_manager THEN reply(NotConfiguredText, FALSE)
    ELSE CASE remote.kind = "token_fault" -> reply(UnexpectedText("Token fetch failed"), FALSE)
           [] remote.kind = "timeout" -> reply(TimeoutText, TRUE)
           [] remote.kind = "transport" -> reply(ConnectFailedText("Connection refused"), TRUE)
           [] remote.kind = "bad_json_requests" ->
                reply(ConnectFailedText("Expecting value: line 1 column 1 (char 0)"), TRUE)
           [] remote.kind = "bad_json" -> reply(InvalidFormatText, TRUE)
           [] remote.kind = "answer" ->
                reply(IF remote.links = 0 THEN NutritionAnswer ELSE CitedAnswer(remote.links),
                      TRUE)
           [] remote.kind = "unknown_shape" -> reply("{\n  \"status\": \"ok\"\n}", TRUE)
           [] OTHER -> reply("['ok']", TRUE)

\* ------------------------------------------------------------ ToolManager
\* the tool objects a caller can construct and hand to register_tool
SEARCH == "CourseSearchTool(store)"
NUTRITION == "NutritionTool(token_manager)"
NUTRITION_NO_AUTH == "NutritionTool(None)"
\* tools whose definition carries no name, or an empty one
UNNAMED == "Tool without name"
BLANK == "Tool with empty name"
ToolObjects == {SEARCH, NUTRITION, NUTRITION_NO_AUTH, UNNAMED, BLANK}

SearchToolName == ToolName
NutritionToolName == "ask_nutrition_expert"
UnknownToolName == "nonexistent_tool"
\* the names a caller can ask execute_tool for
RequestedNames == {SearchToolName, NutritionToolName, UnknownToolName}

\* tool.get_tool_definition()
get_tool_definition(tool) ==
    CASE tool = SEARCH -> [type |-> "function", function |-> [name |-> SearchToolName]]
      [] tool \in {NUTRITION, NUTRITION_NO_AUTH} ->
           [type |-> "function", function |-> [name |-> NutritionToolName]]
      [] tool = BLANK -> [type |-> "function", function |-> [name |-> ""]]
      [] OTHER -> [type |-> "function", function |-> [description |-> "no name"]]

\* tool_def.get("function").get("name")
DefinitionName(tool) ==
    LET function == get_tool_definition(tool).function IN
    IF HasKey(function, "name") THEN function.name ELSE None

\* only the absent name refused
NameMissingUnlessEmpty(tool_name) == tool_name = None

\* if not tool_name
NameMissing(tool_name) == tool_name \in {None, ""}

NoNameError == "ValueError: Tool must have a 'name' in its definition"

\* the registry is the dict self.tools: its entries in insertion order
Names(reg) == {reg[i].name : i \in DOMAIN reg}
Lookup(reg, name) == reg[CHOOSE i \in DOMAIN reg : reg[i].name = name].tool
Registered(reg) == {reg[i].tool : i \in DOMAIN reg}

\* self.tools[tool_name] = tool: a new key goes last, a known key keeps its
\* place and gets the new tool
SetItem(reg, name, tool) ==
    IF name \in Names(reg)
    THEN [i \in DOMAIN reg |-> IF reg[i].name = name
                                THEN [name |-> name, tool |-> tool] ELSE reg[i]]
    ELSE Append(reg, [name |-> name, tool |-> tool])

\* the name left out of the text
NotFoundTextAnonymous(tool_name) == "Tool not found"

\* f"Tool '{tool_name}' not found"
NotFoundText(tool_name) == "Tool '" \o tool_name \o "' not found"

\* a buffer is the last_sources attribute of a tool object, if it has one
NoAttribute == [has |-> FALSE, list |-> <<>>]
Attribute(list) == [has |-> TRUE, list |-> list]

\* hasattr(tool, 'last_sources') and tool.last_sources
HoldsSources(buffer) == buffer.has /\ Len(buffer.list) > 0

\* ToolManager.get_last_sources: the first registered tool that holds some
get_last_sources(reg, buffers) ==
    IF \E i \in DOMAIN reg : HoldsSources(buffers[reg[i].tool])
    THEN buffers[reg[CHOOSE i \in DOMAIN reg :
                       /\ HoldsSources(buffers[reg[i].tool])
                       /\ \A j \in 1..(i - 1) : ~HoldsSources(buffers[reg[j].tool])].tool].list
    ELSE <<>>

\* the buffer left as it is
ClearedBufferKept(buffer) == buffer

\* if hasattr(tool, 'last_sources'): tool.last_sources = []
ClearedBuffer(buffer) == IF buffer.has THEN Attribute(<<>>) ELSE buffer

\* ToolManager.reset_sources: every registered tool's buffer cleared
reset_sources(reg, buffers) ==
    [t \in DOMAIN buffers |->
       IF t \in Registered(reg) THEN ClearedBuffer(buffers[t]) ELSE buffers[t]]

\* ------------------------------------------------------------------ state
VARIABLES
    pc,                     \* position in generate_response
    max_tool_rounds,        \* argument
    tools,                  \* argument
    tool_manager,           \* argument
    messages,               \* the transcript sent with every request
    current_round,
    assistant_message,      \* the reply whose tool requests are being executed
    call_index,             \* position of the for loop in its tool_calls
    tool_execution_failed,
    result,                 \* the returned text, None until return
    fault,                  \* the exception that left the call, None if none
    trace                   \* what the collaborators saw, in order

\* the variables of one generate_response call
genvars == <<pc, max_tool_rounds, tools, tool_manager, messages, current_round,
             assistant_message, call_index, tool_execution_failed, result, fault, trace>>

\* the registry and the tool objects
VARIABLES
    registry,               \* ToolManager.tools, in insertion order
    last_sources,           \* the last_sources attribute of every tool object
    phase,                  \* "setup" while tools are registered, then "serving"
    returned,               \* the latest registry operation and what it gave
    first_registered,       \* the first tool registered under each name
    executed,               \* the tools executed, the latest last
    reset_clean             \* reset_sources ran and no tool executed since

toolvars == <<registry, last_sources, phase, returned, first_registered,
              executed, reset_clean>>

\* two generate_response calls made at the same time, each on its own thread
VARIABLES
    thread,                 \* per caller: where its thread is, its arguments and
                            \* what it did and was given so far
    frame,                  \* the values of messages, current_round and
                            \* tool_execution_failed, per place they are kept in
    last_stored,            \* the caller whose execution assigned last_sources last
    last_returned           \* the caller whose execution with hits returned last

callvars == <<thread, frame, last_stored, last_returned>>

\* one TokenManager used by several threads
VARIABLES
    now,                    \* time.time(), in seconds
    lock,                   \* the thread holding TokenManager._lock, None if free
    cached,                 \* TokenManager._cached_token
    caller,                 \* per thread: where it is in get_token
    latest,                 \* the latest step of a get_token call
    issued,                 \* the number of tokens the endpoint issued
    wave                    \* the get_token calls that overlap, and their fetches

tokenvars == <<now, lock, cached, caller, latest, issued, wave>>

\* one AuthManager, its callers and the clock
VARIABLES
    users,                  \* AuthManager.users: per username its password hash
    auth_sessions,          \* AuthManager.auth_sessions, as the set of its values
    clock,                  \* datetime.now(), in hours
    minted,                 \* the number of session tokens created
    originals,              \* per username the password it was created with
    sessions_log,           \* every session ever created
    logged_out,             \* the tokens logout returned True for
    authret                 \* the latest AuthManager operation and what it gave

authvars == <<users, auth_sessions, clock, minted, originals, sessions_log, logged_out,
              authret>>

\* the variables of the other components
restvars == <<callvars, tokenvars, authvars>>

vars == <<genvars, toolvars, restvars>>

NoReply == [content |-> None, tool_calls |-> <<>>]

\* One observation of the call by a collaborator (or of a collaborator by the
\* call).  ev: "request" | "reply" | "fault" | "exec" | "rejected" | "loop_end".
Event(ev, kind, round) ==
    [ev |-> ev, kind |-> kind, round |-> round, id |-> None, text |-> None,
     at |-> 0, n |-> 0, calls |-> <<>>, sent |-> <<>>, offered |-> FALSE]

\* chat.completions.create(**params) was invoked with these messages
RequestEvent(kind, round, msgs, offered) ==
    [Event("request", kind, round) EXCEPT !.sent = msgs, !.offered = offered]

\* the reply to it: its content, its tool requests, and where the assistant
\* message (if any) goes in the transcript
ReplyEvent(kind, round, content, calls, n, at) ==
    [Event("reply", kind, round) EXCEPT !.text = content, !.calls = calls, !.n = n, !.at = at]

\* get_token or create raised; the transcript had `at` messages
FaultEvent(kind, round, at) == [Event("fault", kind, round) EXCEPT !.at = at]

\* execute_tool was invoked for request `id`; kind is "ok" or "raise"; its
\* tool message is the at-th message
ExecEvent(kind, round, id, text, at) ==
    [Event("exec", kind, round) EXCEPT !.id = id, !.text = text, !.at = at]

\* request `id` failed before execute_tool could be invoked
RejectedEvent(kind, round, id, at) ==
    [Event("rejected", kind, round) EXCEPT !.id = id, !.at = at]

\* no generate_response call has started
IdleGenerator ==
    /\ pc = "idle"
    /\ max_tool_rounds = 0
    /\ tools = None
    /\ tool_manager = None
    /\ messages = <<>>
    /\ current_round = 0
    /\ assistant_message = NoReply
    /\ call_index = 0
    /\ tool_execution_failed = FALSE
    /\ result = None
    /\ fault = None
    /\ trace = <<>>

\* the outcome of a registry operation
Returned(op, name, tool) ==
    [op |-> op, name |-> name, tool |-> tool, raises |-> None, text |-> None,
     sources |-> <<>>, sent |-> FALSE, results |-> SearchResults(<<>>, <<>>, None),
     remote |-> Remote("none", 0), held |-> NoAttribute, before |-> 0,
     args |-> [query |-> Query]]

\* the tool objects as their constructors leave them: only CourseSearchTool
\* sets last_sources
FreshTools ==
    /\ last_sources = [t \in ToolObjects |-> IF t = SEARCH THEN Attribute(<<>>) ELSE NoAttribute]
    /\ returned = Returned("none", None, None)
    /\ executed = <<>>
    /\ reset_clean = FALSE

\* ToolManager(): no tool registered
EmptyRegistry ==
    /\ registry = <<>>
    /\ first_registered = <<>>
    /\ phase = "setup"

\* ------------------------------------------------------------ TokenManager
\* the threads that call get_token, the fetches and the clock steps followed
MaxThreads == 2
MaxFetches == 2
MaxTicks == 2
REFRESH_BUFFER_SECONDS == 300
DefaultExpiresIn == 3600
\* the time that passes in one step of the clock
ClockStep == 200
Threads == {"thread_" \o ToString(i) : i \in 1..MaxThreads}

\* self._cached_token: None, or TokenData(access_token, expires_at)
NoToken == [access_token |-> None, expires_at |-> 0]
TokenData(access_token, expires_at) ==
    [access_token |-> access_token, expires_at |-> expires_at]

\* the refresh time compared strictly
_is_token_expired_strict(token, current_time) ==
    IF token = NoToken THEN TRUE
    ELSE current_time > token.expires_at - REFRESH_BUFFER_SECONDS

\* TokenManager._is_token_expired
_is_token_expired(token, current_time) ==
    IF token = NoToken THEN TRUE
    ELSE current_time >= token.expires_at - REFRESH_BUFFER_SECONDS

\* what the token endpoint can answer to one request: a transport or HTTP
\* error, a body without access_token, or a token with or without expires_in
EndpointReplies ==
    {[kind |-> "request_failed", expires_in |-> 0],
     [kind |-> "no_access_token", expires_in |-> 0],
     [kind |-> "token", expires_in |-> DefaultExpiresIn]}
      \cup {[kind |-> "token", expires_in |-> e] :
              e \in {0, REFRESH_BUFFER_SECONDS, REFRESH_BUFFER_SECONDS + 100}}
AccessToken(n) == "token_" \o ToString(n)
RequestFailedText == "OAuth token request failed: Connection refused"
MissingTokenText == "OAuth response missing 'access_token' field. Response: {}"

\* the cache emptied by a failed fetch
CacheDroppedOnFailure(token) == NoToken

\* the except branches of _fetch_and_cache_token raise RuntimeError and leave
\* self._cached_token as it was
CacheAfterFailure(token) == token

\* the lock taken although it is held
LockIgnored(holder) == TRUE

\* with self._lock: the lock can be taken when nobody holds it
LockFree(holder) == holder = None

\* what the latest step of a get_token call saw and gave
NoCall ==
    [op |-> "none", thread |-> None, seen |-> NoToken, at |-> 0, token |-> None,
     expires_at |-> 0, raised |-> None]
NoWave ==
    [calls |-> 0, fetches |-> 0, tokens |-> {}, stale |-> FALSE, long |-> TRUE,
     spoiled |-> FALSE, sealed |-> FALSE]

\* TokenManager(client_id, client_secret, token_url): nothing cached
FreshTokenManager ==
    /\ now = 0
    /\ lock = None
    /\ cached = NoToken
    /\ caller = [t \in Threads |-> "idle"]
    /\ latest = NoCall
    /\ issued = 0
    /\ wave = NoWave

\* -------------------------------------------------------------- AuthManager
\* the sessions created and the clock steps followed
MaxSessions == 2
MaxClockSteps == 2
session_duration_hours == 24
\* the hours that pass in one step of the clock: a session's life
HoursPerStep == session_duration_hours

Usernames == {"demo", "admin", "guest"}
\* the names and passwords the clients try
Logins == {"demo", "guest"}
Passwords == {"demo", "secret"}
NoUser == "<no user>"

\* bcrypt.hashpw(password, gensalt()) and bcrypt.checkpw(password, hash)
\* (the salt left out: checkpw accepts exactly the hashed password)
_hash_password(password) == "$2b$" \o password
checkpw(password, password_hash) == password_hash = _hash_password(password)

\* secrets.token_urlsafe(32): a token not given out before
SessionToken(n) == "session_" \o ToString(n)
ForgedToken == "forged"
AuthSession(session_token, username, created_at) ==
    [session_token |-> session_token, username |-> username, created_at |-> created_at,
     expires_at |-> created_at + session_duration_hours]

\* the session expired already at its last hour
SessionExpiredAtLastHour(session, current_time) == current_time >= session.expires_at

\* if datetime.now() > auth_session.expires_at
SessionExpired(session, current_time) == current_time > session.expires_at

\* the tokens in the dict and the session stored under one
SessionTokens(sessions) == {x.session_token : x \in sessions}
SessionOf(sessions, token) == CHOOSE x \in sessions : x.session_token = token

AuthReturned(op) ==
    [op |-> op, username |-> None, password |-> None, token |-> None, result |-> None,
     at |-> 0]

\* AuthManager(): the demo users created, no session
FreshAuthManager ==
    /\ users = [u \in Usernames |->
                  IF u \in {"demo", "admin"} THEN _hash_password(u) ELSE NoUser]
    /\ originals = [u \in Usernames |-> IF u \in {"demo", "admin"} THEN u ELSE None]
    /\ auth_sessions = {}
    /\ clock = 0
    /\ minted = 0
    /\ sessions_log = {}
    /\ logged_out = {}
    /\ authret = AuthReturned("none")

\* ------------------------------------------------- two concurrent callers
Callers == {"A", "B"}
Other(c) == IF c = "A" THEN "B" ELSE "A"

\* the call's values kept on the generator: one place for all calls
SlotOnGenerator(c) == "A"

\* messages, current_round and tool_execution_failed are locals of
\* generate_response: one set per call
Slot(c) == c

\* no call began
IdleThread ==
    [pc |-> "idle", limit |-> 0, begun |-> 0, failed |-> FALSE, call_id |-> None,
     results |-> SearchResults(<<>>, <<>>, None), result |-> None, read |-> <<>>]
NoFrame == [messages |-> <<>>, current_round |-> 0, tool_execution_failed |-> FALSE]
IdleCallers ==
    /\ thread = [c \in Callers |-> IdleThread]
    /\ frame = [c \in Callers |-> NoFrame]
    /\ last_stored = None
    /\ last_returned = None

Init == IdleGenerator /\ FreshTools /\ EmptyRegistry /\ IdleCallers /\ FreshTokenManager
      /\ FreshAuthManager

\* ---------------------------------------------------------------- actions
\* generate_response(query, conversation_history, tools, tool_manager,
\* max_tool_rounds) up to the loop
Call ==
    /\ pc = "idle"
    /\ \E limit \in 0..MaxRounds, history \in Histories, tls \in ToolsArgs, manager \in Managers :
         /\ max_tool_rounds' = limit
         /\ tools' = tls
         /\ tool_manager' = manager
         /\ messages' = InitialMessages(Query, history)
    /\ current_round' = 0
    /\ pc' = "while"
    /\ UNCHANGED <<assistant_message, call_index, tool_execution_failed, result, fault, trace>>

\* the fault caught and turned into an empty answer
RaiseSwallowed(kind) ==
    /\ pc' = "returned"
    /\ result' = ""
    /\ UNCHANGED <<fault, messages>>

\* an exception of _get_client or create leaves generate_response: nothing
\* in it catches
Raise(kind) ==
    /\ pc' = "raised"
    /\ fault' = kind
    /\ UNCHANGED <<result, messages>>

\* round request: token_manager.get_token() raises
RoundCredentialFault ==
    /\ pc = "while"
    /\ LoopCondition(current_round, max_tool_rounds)
    /\ current_round' = current_round + 1
    /\ trace' = Append(trace, FaultEvent("credential", current_round + 1, Len(messages)))
    /\ Raise("credential")
    /\ UNCHANGED <<max_tool_rounds, tools, tool_manager, assistant_message, call_index,
                   tool_execution_failed>>

\* round request: create raises, or its response has no choices[0].message
RoundCompletionFault ==
    /\ pc = "while"
    /\ LoopCondition(current_round, max_tool_rounds)
    /\ current_round' = current_round + 1
    /\ trace' = trace \o
         <<RequestEvent("round", current_round + 1, messages,
                        RoundOffersTools(tools, tool_manager)),
           FaultEvent("completion", current_round + 1, Len(messages))>>
    /\ Raise("completion")
    /\ UNCHANGED <<max_tool_rounds, tools, tool_manager, assistant_message, call_index,
                   tool_execution_failed>>

\* round request answered without tool requests: return its text
RoundFinalAnswer ==
    /\ pc = "while"
    /\ LoopCondition(current_round, max_tool_rounds)
    /\ current_round' = current_round + 1
    /\ \E content \in Contents, calls \in CallSeqs :
         /\ NoToolCalls(calls)
         /\ trace' = trace \o
              <<RequestEvent("round", current_round + 1, messages,
                             RoundOffersTools(tools, tool_manager)),
                ReplyEvent("round", current_round + 1, content, calls, Len(calls), 0)>>
         /\ result' = TextOrEmpty(content)
    /\ pc' = "returned"
    /\ UNCHANGED <<max_tool_rounds, tools, tool_manager, messages, assistant_message,
                   call_index, tool_execution_failed, fault>>

\* round request answered with tool requests: append the assistant message
\* and enter the for loop
RoundToolRequests ==
    /\ pc = "while"
    /\ LoopCondition(current_round, max_tool_rounds)
    /\ current_round' = current_round + 1
    /\ \E content \in ToolReplyContents, calls \in CallSeqs :
         /\ ~NoToolCalls(calls)
         /\ trace' = trace \o
              <<RequestEvent("round", current_round + 1, messages,
                             RoundOffersTools(tools, tool_manager)),
                ReplyEvent("round", current_round + 1, content, calls, Len(calls),
                           Len(messages) + 1)>>
         /\ assistant_message' = [content |-> content, tool_calls |-> calls]
         /\ messages' = AppendMessage(messages, AssistantMessage(content, calls))
    /\ call_index' = 1
    /\ tool_execution_failed' = FALSE
    /\ pc' = "for"
    /\ UNCHANGED <<max_tool_rounds, tools, tool_manager, result, fault>>

\* the tool request the for loop is at
InForLoop == pc = "for" /\ call_index <= Len(assistant_message.tool_calls)
CurrentCall == assistant_message.tool_calls[call_index]

\* the rest of one iteration: the tool message is appended, the flag updated
FinishCall(content, failed, event) ==
    /\ messages' = AppendMessage(messages, ToolMessage(CurrentCall.id, content))
    /\ tool_execution_failed' = failed
    /\ call_index' = NextCall(call_index, failed, Len(assistant_message.tool_calls))
    /\ trace' = Append(trace, event)
    /\ UNCHANGED <<pc, max_tool_rounds, tools, tool_manager, current_round,
                   assistant_message, result, fault>>

\* json.loads raises JSONDecodeError
ToolArgumentsInvalid ==
    /\ InForLoop
    /\ json_loads(CurrentCall.arguments).raises
    /\ FinishCall(InvalidArgumentsText, TRUE,
                  RejectedEvent("invalid_json", current_round, CurrentCall.id,
                                Len(messages) + 1))

\* the call expression itself raises before execute_tool runs: no registry
\* (AttributeError), or arguments that are not a mapping (TypeError)
ToolCallTypeError ==
    /\ InForLoop
    /\ ~json_loads(CurrentCall.arguments).raises
    /\ tool_manager = None \/ json_loads(CurrentCall.arguments).type # "dict"
    /\ LET kind == IF tool_manager = None THEN "no_manager" ELSE "not_mapping"
           detail == IF tool_manager = None THEN NoManagerDetail ELSE NotMappingDetail
       IN FinishCall(ExecutionFailedText(detail), TRUE,
                     RejectedEvent(kind, current_round, CurrentCall.id, Len(messages) + 1))

\* execute_tool is invoked and returns a text
ToolReturns ==
    /\ InForLoop
    /\ ~json_loads(CurrentCall.arguments).raises
    /\ tool_manager # None /\ json_loads(CurrentCall.arguments).type = "dict"
    /\ \E outcome \in ToolOutcomes :
         /\ ~outcome.raises
         /\ FinishCall(outcome.text, tool_execution_failed,
                       ExecEvent("ok", current_round, CurrentCall.id, outcome.text,
                                 Len(messages) + 1))

\* the tool's exception not caught: it leaves generate_response
ToolRaisesUncaught ==
    /\ InForLoop
    /\ ~json_loads(CurrentCall.arguments).raises
    /\ tool_manager # None /\ json_loads(CurrentCall.arguments).type = "dict"
    /\ \E outcome \in ToolOutcomes :
         /\ outcome.raises
         /\ trace' = Append(trace, ExecEvent("raise", current_round, CurrentCall.id,
                                             outcome.text, 0))
    /\ pc' = "raised"
    /\ fault' = "tool"
    /\ UNCHANGED <<max_tool_rounds, tools, tool_manager, messages, current_round,
                   assistant_message, call_index, tool_execution_failed, result>>

\* execute_tool is invoked and raises
ToolRaises ==
    /\ InForLoop
    /\ ~json_loads(CurrentCall.arguments).raises
    /\ tool_manager # None /\ json_loads(CurrentCall.arguments).type = "dict"
    /\ \E outcome \in ToolOutcomes :
         /\ outcome.raises
         /\ FinishCall(ExecutionFailedText(outcome.text), TRUE,
                       ExecEvent("raise", current_round, CurrentCall.id, outcome.text,
                                 Len(messages) + 1))

LoopEndEvent == [Event("loop_end", messages[Len(messages)].role, current_round)
                   EXCEPT !.at = Len(messages)]

\* the for loop is over and the round breaks out of the while loop
BreakLoop ==
    /\ pc = "for" /\ call_index > Len(assistant_message.tool_calls)
    /\ StopIteration(current_round, max_tool_rounds, tool_execution_failed)
    /\ pc' = "after"
    /\ trace' = Append(trace, LoopEndEvent)
    /\ UNCHANGED <<max_tool_rounds, tools, tool_manager, messages, current_round,
                   assistant_message, call_index, tool_execution_failed, result, fault>>

\* the for loop is over and the while loop goes on
NextRound ==
    /\ pc = "for" /\ call_index > Len(assistant_message.tool_calls)
    /\ ~StopIteration(current_round, max_tool_rounds, tool_execution_failed)
    /\ pc' = "while"
    /\ UNCHANGED <<max_tool_rounds, tools, tool_manager, messages, current_round,
                   assistant_message, call_index, tool_execution_failed, result, fault, trace>>

\* the while condition is false
LoopExit ==
    /\ pc = "while"
    /\ ~LoopCondition(current_round, max_tool_rounds)
    /\ pc' = "after"
    /\ trace' = Append(trace, LoopEndEvent)
    /\ UNCHANGED <<max_tool_rounds, tools, tool_manager, messages, current_round,
                   assistant_message, call_index, tool_execution_failed, result, fault>>

\* synthesis request: token_manager.get_token() raises
SynthesisCredentialFault ==
    /\ pc = "after"
    /\ NeedsSynthesis(messages)
    /\ trace' = Append(trace, FaultEvent("credential", current_round, Len(messages)))
    /\ Raise("credential")
    /\ UNCHANGED <<max_tool_rounds, tools, tool_manager, current_round, assistant_message,
                   call_index, tool_execution_failed>>

\* synthesis request: create raises, or its response has no choices[0].message
SynthesisCompletionFault ==
    /\ pc = "after"
    /\ NeedsSynthesis(messages)
    /\ trace' = trace \o
         <<RequestEvent("synthesis", current_round, messages, SynthesisOffersTools(tools)),
           FaultEvent("completion", current_round, Len(messages))>>
    /\ Raise("completion")
    /\ UNCHANGED <<max_tool_rounds, tools, tool_manager, current_round, assistant_message,
                   call_index, tool_execution_failed>>

\* synthesis request answered: return its text; the reply may carry n tool
\* requests (none or one here), which are never read
SynthesisAnswer ==
    /\ pc = "after"
    /\ NeedsSynthesis(messages)
    /\ \E content \in Contents, n \in {0, 1} :
         /\ trace' = trace \o
              <<RequestEvent("synthesis", current_round, messages, SynthesisOffersTools(tools)),
                ReplyEvent("synthesis", current_round, content, <<>>, n, 0)>>
         /\ result' = TextOrEmpty(content)
    /\ pc' = "returned"
    /\ UNCHANGED <<max_tool_rounds, tools, tool_manager, messages, current_round,
                   assistant_message, call_index, tool_execution_failed, fault>>

\* no synthesis: return the content of the last message
ReturnLastMessage ==
    /\ pc = "after"
    /\ ~NeedsSynthesis(messages)
    /\ result' = TextOrEmpty(messages[Len(messages)].content)
    /\ pc' = "returned"
    /\ UNCHANGED <<max_tool_rounds, tools, tool_manager, messages, current_round,
                   assistant_message, call_index, tool_execution_failed, fault, trace>>

\* one generate_response call against an abstract registry
Next ==
    \/ Call /\ UNCHANGED <<toolvars, restvars>>
    \/ RoundCredentialFault /\ UNCHANGED <<toolvars, restvars>>
    \/ RoundCompletionFault /\ UNCHANGED <<toolvars, restvars>>
    \/ RoundFinalAnswer /\ UNCHANGED <<toolvars, restvars>>
    \/ RoundToolRequests /\ UNCHANGED <<toolvars, restvars>>
    \/ ToolArgumentsInvalid /\ UNCHANGED <<toolvars, restvars>>
    \/ ToolCallTypeError /\ UNCHANGED <<toolvars, restvars>>
    \/ ToolReturns /\ UNCHANGED <<toolvars, restvars>>
    \/ ToolRaises /\ UNCHANGED <<toolvars, restvars>>
    \/ BreakLoop /\ UNCHANGED <<toolvars, restvars>>
    \/ NextRound /\ UNCHANGED <<toolvars, restvars>>
    \/ LoopExit /\ UNCHANGED <<toolvars, restvars>>
    \/ SynthesisCredentialFault /\ UNCHANGED <<toolvars, restvars>>
    \/ SynthesisCompletionFault /\ UNCHANGED <<toolvars, restvars>>
    \/ SynthesisAnswer /\ UNCHANGED <<toolvars, restvars>>
    \/ ReturnLastMessage /\ UNCHANGED <<toolvars, restvars>>

Spec == Init /\ [][Next]_vars

\* the same call when every step that can be taken is taken in the end: each
\* completion request and each tool execution returns or raises, and the
\* thread running generate_response is scheduled
TerminationSpec == Spec /\ WF_vars(Next)

\* ------------------------------------------------ the registry's operations
\* what VectorStore.search does for one execute: it raises, or returns
ProviderOutcomes ==
    {[raises |-> TRUE, results |-> SearchResults(<<>>, <<>>, None)]}
      \cup {[raises |-> FALSE, results |-> r] : r \in ProviderResults}
SearchCrashDetail == "Database connection failed"
NoProvider == [raises |-> FALSE, results |-> SearchResults(<<>>, <<>>, None)]

\* the unknown name raised as an exception
NotFoundRaised(tool_name) ==
    [Returned("execute_tool", tool_name, None) EXCEPT !.raises = NotFoundText(tool_name)]

\* if tool_name not in self.tools: return f"Tool '{tool_name}' not found"
NotFound(tool_name) ==
    [Returned("execute_tool", tool_name, None) EXCEPT !.text = NotFoundText(tool_name)]

\* ToolManager.execute_tool(tool_name, **args): what it returns or raises and
\* the buffer it leaves on the tool it ran, given what the tool's collaborator
\* does (the search provider for CourseSearchTool, the remote side for
\* NutritionTool)
execute_tool(reg, buffers, tool_name, args, provider, remote) ==
    IF tool_name \notin Names(reg)
    THEN NotFound(tool_name)
    ELSE LET tool == Lookup(reg, tool_name)
             held == buffers[tool]
             ran == [Returned("execute_tool", tool_name, tool)
                       EXCEPT !.held = held, !.before = Len(held.list), !.args = args]
         IN IF tool = SEARCH
            THEN IF provider.raises
                 THEN [ran EXCEPT !.raises = SearchCrashDetail]
                 ELSE LET r == CourseSearchTool_execute(args, provider.results, held.list)
                      IN [ran EXCEPT !.text = r.text, !.held = Attribute(r.last_sources),
                                     !.results = provider.results]
            ELSE LET r == NutritionTool_execute(tool = NUTRITION, remote, held)
                 IN [ran EXCEPT !.text = r.text, !.sent = r.sent, !.held = r.last_sources,
                                !.remote = remote]

\* the arguments tried with a provider outcome: the filters go to the provider
\* and are read by the tool itself only to word the empty-result message
FiltersFor(provider) ==
    IF ~provider.raises /\ provider.results.error = None /\ is_empty(provider.results)
    THEN SearchArgs ELSE {[query |-> Query]}

\* the tool objects and the bookkeeping after execute_tool gave `out`
Executed(out) ==
    /\ returned' = out
    /\ last_sources' = IF out.tool = None THEN last_sources
                       ELSE [last_sources EXCEPT ![out.tool] = out.held]
    /\ executed' = IF out.tool = None THEN executed
                   ELSE Append(SelectSeq(executed, LAMBDA t : t # out.tool), out.tool)
    /\ reset_clean' = (reset_clean /\ (out.tool = None \/ out.raises # None))

\* the caller is free to use the registry: no generate_response call runs
CallerTurn == pc = "idle"

\* ToolManager.register_tool(tool), while the application sets itself up
RegisterTool ==
    /\ CallerTurn /\ phase = "setup"
    /\ \E tool \in ToolObjects :
         LET tool_name == DefinitionName(tool) IN
         IF NameMissing(tool_name)
         THEN /\ returned' = [Returned("register_tool", tool_name, tool)
                                EXCEPT !.raises = NoNameError]
              /\ UNCHANGED <<registry, first_registered>>
         ELSE /\ registry' = SetItem(registry, tool_name, tool)
              /\ first_registered' =
                   IF tool_name \in Names(first_registered) THEN first_registered
                   ELSE Append(first_registered, [name |-> tool_name, tool |-> tool])
              /\ returned' = Returned("register_tool", tool_name, tool)
    /\ UNCHANGED <<last_sources, phase, executed, reset_clean, genvars, restvars>>

OldSources == <<[text |-> "old", url |-> "old"]>>

\* tool.last_sources = [...] on a NutritionTool just constructed
AssignSources ==
    /\ CallerTurn /\ phase = "setup"
    /\ \E tool \in {NUTRITION, NUTRITION_NO_AUTH} :
         /\ ~last_sources[tool].has
         /\ tool \notin Registered(registry)
         /\ last_sources' = [last_sources EXCEPT ![tool] = Attribute(OldSources)]
         /\ returned' = Returned("assign", None, tool)
    /\ UNCHANGED <<registry, first_registered, phase, executed, reset_clean, genvars, restvars>>

\* everything execute_tool(tool_name, ...) can give, over the provider
\* outcomes `providers` and the remote outcomes `remotes`
Outcomes(tool_name, providers, remotes) ==
    IF tool_name \notin Names(registry)
    THEN {execute_tool(registry, last_sources, tool_name, [query |-> Query],
                       NoProvider, Remote("none", 0))}
    ELSE IF Lookup(registry, tool_name) = SEARCH
    THEN UNION {{execute_tool(registry, last_sources, tool_name, args, provider,
                              Remote("none", 0)) : args \in FiltersFor(provider)} :
                  provider \in providers}
    ELSE {execute_tool(registry, last_sources, tool_name, [question |-> Query],
                       NoProvider, remote) : remote \in remotes}

\* tool_manager.execute_tool(name, **args) by a caller
ExecuteTool ==
    /\ CallerTurn
    /\ \E tool_name \in RequestedNames :
         \E out \in Outcomes(tool_name, ProviderOutcomes, RemoteOutcomes) : Executed(out)
    /\ phase' = "serving"
    /\ UNCHANGED <<registry, first_registered, genvars, restvars>>

\* tool_manager.get_last_sources()
GetLastSources ==
    /\ CallerTurn
    /\ returned' = [Returned("get_last_sources", None, None)
                      EXCEPT !.sources = get_last_sources(registry, last_sources)]
    /\ phase' = "serving"
    /\ UNCHANGED <<registry, first_registered, last_sources, executed, reset_clean, genvars, restvars>>

\* tool_manager.reset_sources()
ResetSources ==
    /\ CallerTurn
    /\ last_sources' = reset_sources(registry, last_sources)
    /\ returned' = Returned("reset_sources", None, None)
    /\ reset_clean' = TRUE
    /\ phase' = "serving"
    /\ UNCHANGED <<registry, first_registered, executed, genvars, restvars>>

RegistryNext ==
    \/ RegisterTool
    \/ AssignSources
    \/ ExecuteTool
    \/ GetLastSources
    \/ ResetSources

\* the registry and its tools used directly by a caller
RegistrySpec == Init /\ [][RegistryNext]_vars

\* ------------------------------------- generate_response with the registry
\* the registry as the application sets it up: the search tool, then the
\* nutrition tool, built with or without a credential provider
ApplicationRegistry ==
    /\ \E nutrition \in {NUTRITION, NUTRITION_NO_AUTH} :
         registry = <<[name |-> SearchToolName, tool |-> SEARCH],
                      [name |-> NutritionToolName, tool |-> nutrition]>>
    /\ first_registered = registry
    /\ phase = "serving"

RoundInit ==
    IdleGenerator /\ FreshTools /\ ApplicationRegistry /\ IdleCallers /\ FreshTokenManager
      /\ FreshAuthManager

\* a reply that requests one tool by name, with an object as arguments
NamedCalls ==
    {<<[id |-> CallId(1), name |-> n, arguments |-> ObjectArgs]>> : n \in RequestedNames}

\* the outcomes followed through the rounds
RoundProviderOutcomes ==
    {[raises |-> TRUE, results |-> SearchResults(<<>>, <<>>, None)],
     [raises |-> FALSE, results |-> SearchResults(<<>>, <<>>, ProviderError)],
     [raises |-> FALSE,
      results |-> SearchResults(<<HitDocument>>, <<[course_title |-> CourseTitle]>>, None)]}
RoundRemoteOutcomes == {Remote("timeout", 0), Remote("transport", 0), Remote("answer", 0)}

\* round request answered with a request for one named tool
RoundNamedToolRequest ==
    /\ pc = "while"
    /\ LoopCondition(current_round, max_tool_rounds)
    /\ current_round' = current_round + 1
    /\ \E calls \in NamedCalls :
         /\ trace' = trace \o
              <<RequestEvent("round", current_round + 1, messages,
                             RoundOffersTools(tools, tool_manager)),
                ReplyEvent("round", current_round + 1, None, calls, Len(calls),
                           Len(messages) + 1)>>
         /\ assistant_message' = [content |-> None, tool_calls |-> calls]
         /\ messages' = AppendMessage(messages, AssistantMessage(None, calls))
    /\ call_index' = 1
    /\ tool_execution_failed' = FALSE
    /\ pc' = "for"
    /\ UNCHANGED <<max_tool_rounds, tools, tool_manager, result, fault>>

\* tool_manager.execute_tool(name, **args) in the for loop: the registry runs
\* the tool, its text becomes the tool message; what it raises is caught
RegistryToolCall ==
    /\ InForLoop
    /\ ~json_loads(CurrentCall.arguments).raises
    /\ tool_manager # None /\ json_loads(CurrentCall.arguments).type = "dict"
    /\ \E out \in Outcomes(CurrentCall.name, RoundProviderOutcomes, RoundRemoteOutcomes) :
         /\ Executed(out)
         /\ IF out.raises # None
            THEN FinishCall(ExecutionFailedText(out.raises), TRUE,
                            ExecEvent("raise", current_round, CurrentCall.id, out.raises,
                                      Len(messages) + 1))
            ELSE FinishCall(out.text, tool_execution_failed,
                            ExecEvent("ok", current_round, CurrentCall.id, out.text,
                                      Len(messages) + 1))
    /\ UNCHANGED <<registry, first_registered, phase, restvars>>

RoundNext ==
    \/ Call /\ UNCHANGED <<toolvars, restvars>>
    \/ RoundCredentialFault /\ UNCHANGED <<toolvars, restvars>>
    \/ RoundCompletionFault /\ UNCHANGED <<toolvars, restvars>>
    \/ RoundFinalAnswer /\ UNCHANGED <<toolvars, restvars>>
    \/ RoundNamedToolRequest /\ UNCHANGED <<toolvars, restvars>>
    \/ ToolCallTypeError /\ UNCHANGED <<toolvars, restvars>>
    \/ RegistryToolCall
    \/ BreakLoop /\ UNCHANGED <<toolvars, restvars>>
    \/ NextRound /\ UNCHANGED <<toolvars, restvars>>
    \/ LoopExit /\ UNCHANGED <<toolvars, restvars>>
    \/ SynthesisCredentialFault /\ UNCHANGED <<toolvars, restvars>>
    \/ SynthesisCompletionFault /\ UNCHANGED <<toolvars, restvars>>
    \/ SynthesisAnswer /\ UNCHANGED <<toolvars, restvars>>
    \/ ReturnLastMessage /\ UNCHANGED <<toolvars, restvars>>

\* one generate_response call whose tool requests the registry executes
RoundSpec == RoundInit /\ [][RoundNext]_vars

\* --------------------------------- two generate_response calls at once
\* the query of each caller, and the hit the provider has for it
QueryOf(c) == IF c = "A" THEN Query ELSE "What is MCP?"
HitsFor(c) ==
    SearchResults(<<HitDocument>>,
                  <<IF c = "A" THEN [course_title |-> CourseTitle, lesson_number |-> 0]
                    ELSE [course_title |-> CourseTitle]>>,
                  None)
\* what VectorStore.search does for a caller's query
CallerProviderOutcomes(c) ==
    {[raises |-> TRUE, results |-> SearchResults(<<>>, <<>>, None)],
     [raises |-> FALSE, results |-> SearchResults(<<>>, <<>>, None)],
     [raises |-> FALSE, results |-> HitsFor(c)]}
\* tool_call.id of the request in a caller's reply of round r
CallerCallId(c, r) == "call_" \o c \o ToString(r)
Answer == "Here is the answer."

\* the registry both calls use: the search tool registered
SharedRegistry ==
    /\ registry = <<[name |-> SearchToolName, tool |-> SEARCH]>>
    /\ first_registered = registry
    /\ phase = "serving"

ConcurrentInit ==
    IdleGenerator /\ FreshTools /\ SharedRegistry /\ IdleCallers /\ FreshTokenManager
      /\ FreshAuthManager

\* the values caller c's generate_response reads and writes
Frame(c) == frame[Slot(c)]
\* caller c's thread moves on: its own record and its values change
Step(c, t, f) ==
    /\ thread' = [thread EXCEPT ![c] = t]
    /\ frame' = [frame EXCEPT ![Slot(c)] = f]
At(c, label) == thread[c].pc = label
\* the shared objects the step of a call leaves alone
SharedUnchanged ==
    UNCHANGED <<genvars, registry, phase, returned, first_registered, executed, reset_clean,
                tokenvars, authvars>>

\* generate_response(query, tools, tool_manager, max_tool_rounds) is entered
ConcurrentCall(c) ==
    /\ At(c, "idle")
    /\ \E limit \in 0..MaxRounds :
         Step(c, [thread[c] EXCEPT !.pc = "while", !.limit = limit],
              [messages |-> InitialMessages(QueryOf(c), None), current_round |-> 0,
               tool_execution_failed |-> FALSE])
    /\ UNCHANGED <<last_sources, last_stored, last_returned>>
    /\ SharedUnchanged

InRound(c) == At(c, "while") /\ LoopCondition(Frame(c).current_round, thread[c].limit)

\* the round request fails: the exception leaves the call
ConcurrentRoundFault(c) ==
    /\ InRound(c)
    /\ Step(c, [thread[c] EXCEPT !.pc = "raised", !.begun = @ + 1],
            [Frame(c) EXCEPT !.current_round = @ + 1])
    /\ UNCHANGED <<last_sources, last_stored, last_returned>>
    /\ SharedUnchanged

\* the reply of the round carries no tool request: it is the answer
ConcurrentRoundAnswer(c) ==
    /\ InRound(c)
    /\ Step(c, [thread[c] EXCEPT !.pc = "returned", !.begun = @ + 1,
                                 !.result = TextOrEmpty(Answer)],
            [Frame(c) EXCEPT !.current_round = @ + 1])
    /\ UNCHANGED <<last_sources, last_stored, last_returned>>
    /\ SharedUnchanged

\* the reply of the round requests the search tool
ConcurrentToolRequest(c) ==
    /\ InRound(c)
    /\ LET id == CallerCallId(c, Frame(c).current_round + 1)
           calls == <<[id |-> id, name |-> SearchToolName, arguments |-> ObjectArgs]>>
       IN Step(c, [thread[c] EXCEPT !.pc = "execute", !.begun = @ + 1, !.failed = FALSE,
                                    !.call_id = id],
               [Frame(c) EXCEPT !.current_round = @ + 1,
                                !.messages = Append(@, AssistantMessage(None, calls)),
                                !.tool_execution_failed = FALSE])
    /\ UNCHANGED <<last_sources, last_stored, last_returned>>
    /\ SharedUnchanged

\* execute_tool up to the provider's answer: the search raises and the except
\* branch appends the failure, or there is nothing to cite and the text is
\* returned, or the hits go on to _format_results
ConcurrentSearch(c) ==
    /\ At(c, "execute")
    /\ \E out \in CallerProviderOutcomes(c) :
         IF out.raises
         THEN Step(c, [thread[c] EXCEPT !.pc = "endfor", !.failed = TRUE],
                   [Frame(c) EXCEPT
                      !.messages = Append(@, ToolMessage(thread[c].call_id,
                                                         ExecutionFailedText(SearchCrashDetail))),
                      !.tool_execution_failed = TRUE])
         ELSE IF out.results.error # None \/ is_empty(out.results)
         THEN Step(c, [thread[c] EXCEPT !.pc = "endfor"],
                   [Frame(c) EXCEPT
                      !.messages =
                          Append(@, ToolMessage(thread[c].call_id,
                                                CourseSearchTool_execute(
                                                    [query |-> QueryOf(c)], out.results,
                                                    <<>>).text))])
         ELSE Step(c, [thread[c] EXCEPT !.pc = "store", !.results = out.results], Frame(c))
    /\ UNCHANGED <<last_sources, last_stored, last_returned>>
    /\ SharedUnchanged

\* _format_results: self.last_sources = sources
ConcurrentStore(c) ==
    /\ At(c, "store")
    /\ last_sources' =
         [last_sources EXCEPT
            ![SEARCH] = Attribute(StoreSources(@.list, SourcesOf(thread[c].results)))]
    /\ last_stored' = c
    /\ Step(c, [thread[c] EXCEPT !.pc = "return"], Frame(c))
    /\ UNCHANGED last_returned
    /\ SharedUnchanged

\* _format_results, execute and execute_tool return the text, which becomes
\* the tool message
ConcurrentToolReturn(c) ==
    /\ At(c, "return")
    /\ Step(c, [thread[c] EXCEPT !.pc = "endfor"],
            [Frame(c) EXCEPT
               !.messages = Append(@, ToolMessage(thread[c].call_id,
                                                  _format_results(thread[c].results,
                                                                  <<>>).text))])
    /\ last_returned' = c
    /\ UNCHANGED <<last_sources, last_stored>>
    /\ SharedUnchanged

CallerStops(c) ==
    StopIteration(Frame(c).current_round, thread[c].limit, Frame(c).tool_execution_failed)

\* the for loop is over and the round breaks out of the while loop
ConcurrentBreak(c) ==
    /\ At(c, "endfor") /\ CallerStops(c)
    /\ Step(c, [thread[c] EXCEPT !.pc = "after"], Frame(c))
    /\ UNCHANGED <<last_sources, last_stored, last_returned>>
    /\ SharedUnchanged

\* the for loop is over and the while loop goes on
ConcurrentNextRound(c) ==
    /\ At(c, "endfor") /\ ~CallerStops(c)
    /\ Step(c, [thread[c] EXCEPT !.pc = "while"], Frame(c))
    /\ UNCHANGED <<last_sources, last_stored, last_returned>>
    /\ SharedUnchanged

\* the while condition is false
ConcurrentLoopExit(c) ==
    /\ At(c, "while") /\ ~LoopCondition(Frame(c).current_round, thread[c].limit)
    /\ Step(c, [thread[c] EXCEPT !.pc = "after"], Frame(c))
    /\ UNCHANGED <<last_sources, last_stored, last_returned>>
    /\ SharedUnchanged

\* the synthesis request: its reply's text is returned, or it fails
ConcurrentSynthesis(c) ==
    /\ At(c, "after") /\ NeedsSynthesis(Frame(c).messages)
    /\ \E answered \in BOOLEAN :
         Step(c, IF answered
                 THEN [thread[c] EXCEPT !.pc = "returned", !.result = TextOrEmpty(Answer)]
                 ELSE [thread[c] EXCEPT !.pc = "raised"],
              Frame(c))
    /\ UNCHANGED <<last_sources, last_stored, last_returned>>
    /\ SharedUnchanged

\* return messages[-1]["content"] or ""
ConcurrentReturnLast(c) ==
    /\ At(c, "after") /\ ~NeedsSynthesis(Frame(c).messages)
    /\ Step(c, [thread[c] EXCEPT
                  !.pc = "returned",
                  !.result = TextOrEmpty(Frame(c).messages[Len(Frame(c).messages)].content)],
            Frame(c))
    /\ UNCHANGED <<last_sources, last_stored, last_returned>>
    /\ SharedUnchanged

\* the caller reads tool_manager.get_last_sources() once its call returned
ConcurrentGetLastSources(c) ==
    /\ At(c, "returned")
    /\ Step(c, [thread[c] EXCEPT !.pc = "done",
                                 !.read = get_last_sources(registry, last_sources)],
            Frame(c))
    /\ UNCHANGED <<last_sources, last_stored, last_returned>>
    /\ SharedUnchanged

ConcurrentNext ==
    \/ \E c \in Callers : ConcurrentCall(c)
    \/ \E c \in Callers : ConcurrentRoundFault(c)
    \/ \E c \in Callers : ConcurrentRoundAnswer(c)
    \/ \E c \in Callers : ConcurrentToolRequest(c)
    \/ \E c \in Callers : ConcurrentSearch(c)
    \/ \E c \in Callers : ConcurrentStore(c)
    \/ \E c \in Callers : ConcurrentToolReturn(c)
    \/ \E c \in Callers : ConcurrentBreak(c)
    \/ \E c \in Callers : ConcurrentNextRound(c)
    \/ \E c \in Callers : ConcurrentLoopExit(c)
    \/ \E c \in Callers : ConcurrentSynthesis(c)
    \/ \E c \in Callers : ConcurrentReturnLast(c)
    \/ \E c \in Callers : ConcurrentGetLastSources(c)

\* two calls on two threads against one generator and one registry, their
\* steps interleaved in every order
ConcurrentSpec == ConcurrentInit /\ [][ConcurrentNext]_vars

\* ------------------------------------------- get_token on several threads
NobodyInCall == \A t \in Threads : caller[t] = "idle"
\* everything but the TokenManager
TokenUnchanged == UNCHANGED <<genvars, toolvars, callvars, authvars>>

\* a thread calls get_token() and comes to the lock; the calls that overlap
\* from here on form a wave
Invoke(t) ==
    /\ caller[t] = "idle"
    /\ caller' = [caller EXCEPT ![t] = "acquire"]
    /\ wave' = IF NobodyInCall
               THEN [NoWave EXCEPT !.calls = 1, !.stale = _is_token_expired(cached, now)]
               ELSE IF wave.sealed THEN [wave EXCEPT !.spoiled = TRUE]
               ELSE [wave EXCEPT !.calls = @ + 1]
    /\ UNCHANGED <<now, lock, cached, latest, issued>>
    /\ TokenUnchanged

\* the thread takes the lock and finds the cached token still good: it
\* returns it and the lock is released
ReturnCached(t) ==
    /\ caller[t] = "acquire" /\ LockFree(lock)
    /\ ~_is_token_expired(cached, now)
    /\ caller' = [caller EXCEPT ![t] = "idle"]
    /\ latest' = [NoCall EXCEPT !.op = "cached", !.thread = t, !.seen = cached,
                                !.at = now, !.token = cached.access_token,
                                !.expires_at = cached.expires_at]
    /\ wave' = [wave EXCEPT !.tokens = @ \cup {cached.access_token}, !.sealed = TRUE]
    /\ UNCHANGED <<now, lock, cached, issued>>
    /\ TokenUnchanged

\* the thread takes the lock, finds no token or one due for refresh, and
\* sends the request to the token endpoint
StartFetch(t) ==
    /\ caller[t] = "acquire" /\ LockFree(lock)
    /\ _is_token_expired(cached, now)
    /\ issued < MaxFetches
    /\ lock' = t
    /\ caller' = [caller EXCEPT ![t] = "fetching"]
    /\ latest' = [NoCall EXCEPT !.op = "request", !.thread = t, !.seen = cached, !.at = now]
    /\ issued' = issued + 1
    /\ wave' = [wave EXCEPT !.fetches = @ + 1]
    /\ UNCHANGED <<now, cached>>
    /\ TokenUnchanged

\* the endpoint's answer arrives: the token is cached and returned, or
\* _fetch_and_cache_token raises RuntimeError; either way the lock is released
FinishFetch(t) ==
    /\ caller[t] = "fetching"
    /\ \E reply \in EndpointReplies :
         IF reply.kind = "token"
         THEN LET token == TokenData(AccessToken(issued), now + reply.expires_in) IN
              /\ cached' = token
              /\ latest' = [NoCall EXCEPT !.op = "fetched", !.thread = t, !.at = now,
                                          !.token = token.access_token,
                                          !.expires_at = token.expires_at]
              /\ wave' = [wave EXCEPT
                            !.tokens = @ \cup {token.access_token}, !.sealed = TRUE,
                            !.long = @ /\ reply.expires_in > REFRESH_BUFFER_SECONDS]
         ELSE /\ cached' = CacheAfterFailure(cached)
              /\ latest' = [NoCall EXCEPT !.op = "raised", !.thread = t, !.at = now,
                                          !.seen = cached,
                                          !.raised = IF reply.kind = "request_failed"
                                                     THEN RequestFailedText
                                                     ELSE MissingTokenText]
              /\ wave' = [wave EXCEPT !.sealed = TRUE, !.spoiled = TRUE]
    /\ caller' = [caller EXCEPT ![t] = "idle"]
    /\ lock' = IF lock = t THEN None ELSE lock
    /\ UNCHANGED <<now, issued>>
    /\ TokenUnchanged

\* clear_cache(), by a thread that is not inside get_token
ClearCache ==
    /\ LockFree(lock)
    /\ cached # NoToken
    /\ cached' = NoToken
    /\ latest' = [NoCall EXCEPT !.op = "clear_cache", !.at = now]
    /\ wave' = IF NobodyInCall THEN wave ELSE [wave EXCEPT !.spoiled = TRUE]
    /\ UNCHANGED <<now, lock, caller, issued>>
    /\ TokenUnchanged

\* time passes while a request is in flight or while no thread is about to
\* take the lock: taking a free lock and the statements under it take no time
Tick ==
    /\ now < MaxTicks * ClockStep
    /\ \A t \in Threads : caller[t] = "acquire" => ~LockFree(lock)
    /\ now' = now + ClockStep
    /\ UNCHANGED <<lock, cached, caller, latest, issued, wave>>
    /\ TokenUnchanged

TokenNext ==
    \/ \E t \in Threads : Invoke(t)
    \/ \E t \in Threads : ReturnCached(t)
    \/ \E t \in Threads : StartFetch(t)
    \/ \E t \in Threads : FinishFetch(t)
    \/ ClearCache
    \/ Tick

\* one TokenManager, its threads and the clock
TokenSpec == Init /\ [][TokenNext]_vars

\* ------------------------------------------------- AuthManager's operations
AuthGhostsUnchanged == UNCHANGED <<genvars, toolvars, callvars, tokenvars>>

\* the tokens a client may present: every one given out, and one never given out
PresentedTokens == {SessionToken(i) : i \in 1..minted} \cup {ForgedToken}

\* the existing user's hash replaced by the new password's
UsersAfterRefusedCreate(table, username, password) ==
    [table EXCEPT ![username] = _hash_password(password)]

\* create_user returns False before it stores anything
UsersAfterRefused(table, username, password) == table

\* create_user(username, password)
CreateUser(username, password) ==
    /\ IF users[username] # NoUser
       THEN /\ users' = UsersAfterRefused(users, username, password)
            /\ UNCHANGED originals
            /\ authret' = [AuthReturned("create_user") EXCEPT
                             !.username = username, !.password = password,
                             !.result = "False",
                             !.at = clock]
       ELSE /\ users' = [users EXCEPT ![username] = _hash_password(password)]
            /\ originals' = [originals EXCEPT ![username] = password]
            /\ authret' = [AuthReturned("create_user") EXCEPT
                             !.username = username, !.password = password,
                             !.result = "True",
                             !.at = clock]
    /\ UNCHANGED <<auth_sessions, clock, minted, sessions_log, logged_out>>
    /\ AuthGhostsUnchanged

\* a session stored for the failed attempt as well
SessionsAfterFailedAttempt(sessions, session) == sessions \cup {session}

\* authenticate returns None before it creates a session
SessionsAfterFailure(sessions, session) == sessions

\* authenticate(username, password)
Authenticate(username, password) ==
    LET session == AuthSession(SessionToken(minted + 1), username, clock)
        ret == [AuthReturned("authenticate") EXCEPT
                  !.username = username, !.password = password, !.at = clock]
    IN  /\ IF users[username] = NoUser \/ ~checkpw(password, users[username])
           THEN /\ auth_sessions' = SessionsAfterFailure(auth_sessions, session)
                /\ authret' = ret
                /\ UNCHANGED <<minted, sessions_log>>
           ELSE /\ minted < MaxSessions
                /\ auth_sessions' = auth_sessions \cup {session}
                /\ minted' = minted + 1
                /\ sessions_log' = sessions_log \cup {session}
                /\ authret' = [ret EXCEPT !.token = session.session_token,
                                          !.result = session.session_token]
        /\ UNCHANGED <<users, originals, clock, logged_out>>
        /\ AuthGhostsUnchanged

\* validate_session(session_token)
ValidateSession(session_token) ==
    LET ret == [AuthReturned("validate_session") EXCEPT
                  !.token = session_token, !.at = clock]
    IN  /\ IF session_token \notin SessionTokens(auth_sessions)
           THEN /\ authret' = ret
                /\ UNCHANGED auth_sessions
           ELSE LET auth_session == SessionOf(auth_sessions, session_token)
                IN  IF SessionExpired(auth_session, clock)
                    THEN /\ auth_sessions' = auth_sessions \ {auth_session}
                         /\ authret' = ret
                    ELSE /\ authret' = [ret EXCEPT !.result = auth_session.username]
                         /\ UNCHANGED auth_sessions
        /\ UNCHANGED <<users, originals, clock, minted, sessions_log, logged_out>>
        /\ AuthGhostsUnchanged

\* the session kept by logout
SessionsAfterLogoutKept(sessions, session_token) == sessions

\* del self.auth_sessions[session_token]
SessionsAfterLogout(sessions, session_token) ==
    {x \in sessions : x.session_token # session_token}

\* logout(session_token)
Logout(session_token) ==
    LET ret == [AuthReturned("logout") EXCEPT
                  !.token = session_token, !.at = clock]
    IN  /\ IF session_token \in SessionTokens(auth_sessions)
           THEN /\ auth_sessions' = SessionsAfterLogout(auth_sessions, session_token)
                /\ logged_out' = logged_out \cup {session_token}
                /\ authret' = [ret EXCEPT !.result = "True"]
           ELSE /\ authret' = [ret EXCEPT !.result = "False"]
                /\ UNCHANGED <<auth_sessions, logged_out>>
        /\ UNCHANGED <<users, originals, clock, minted, sessions_log>>
        /\ AuthGhostsUnchanged

\* cleanup_expired_sessions()
CleanupExpiredSessions ==
    /\ auth_sessions' = {x \in auth_sessions : ~SessionExpired(x, clock)}
    /\ authret' = [AuthReturned("cleanup_expired_sessions") EXCEPT !.at = clock]
    /\ UNCHANGED <<users, originals, clock, minted, sessions_log, logged_out>>
    /\ AuthGhostsUnchanged

\* time passes between two operations
AdvanceClock ==
    /\ clock < MaxClockSteps * HoursPerStep
    /\ clock' = clock + HoursPerStep
    /\ UNCHANGED <<users, auth_sessions, minted, originals, sessions_log, logged_out,
                   authret>>
    /\ AuthGhostsUnchanged

AuthNext ==
    \/ \E username \in Logins, password \in Passwords : CreateUser(username, password)
    \/ \E username \in Logins, password \in Passwords : Authenticate(username, password)
    \/ \E session_token \in PresentedTokens : ValidateSession(session_token)
    \/ \E session_token \in PresentedTokens : Logout(session_token)
    \/ CleanupExpiredSessions
    \/ AdvanceClock

\* one AuthManager and the clients that call it one at a time
AuthSpec == Init /\ [][AuthNext]_vars

\* ------------------------------------------------------- reading the trace
Requests == {i \in DOMAIN trace : trace[i].ev = "request"}
RoundRequests == {i \in Requests : trace[i].kind = "round"}
SynthesisRequests == {i \in Requests : trace[i].kind = "synthesis"}
RoundReplies == {i \in DOMAIN trace : trace[i].ev = "reply" /\ trace[i].kind = "round"}
\* invocations of execute_tool
Execs == {i \in DOMAIN trace : trace[i].ev = "exec"}
\* tool requests that failed before execute_tool was invoked
Rejections == {i \in DOMAIN trace : trace[i].ev = "rejected"}
\* tool requests that failed
Failures == Rejections \cup {i \in Execs : trace[i].kind = "raise"}
Faults == {i \in DOMAIN trace : trace[i].ev = "fault"}
LoopEnds == {i \in DOMAIN trace : trace[i].ev = "loop_end"}
ExecsIn(r) == {i \in Execs : trace[i].round = r}
\* the number of tool requests the reply of round r carried
RequestedIn(r) ==
    IF \E i \in RoundReplies : trace[i].round = r
    THEN trace[CHOOSE i \in RoundReplies : trace[i].round = r].n
    ELSE 0
Finished == pc \in {"returned", "raised"}

\* ------------------------------------------------------------------ claims

\* C1: a generate_response call with max_tool_rounds = N >= 0 issues at most
\* N + 1 completion requests: at most N round requests and at most one
\* synthesis request, whatever the replies and the tool outcomes are.
C1_AtMostNPlusOneRequests ==
    /\ Cardinality(Requests) <= max_tool_rounds + 1
    /\ Cardinality(RoundRequests) <= max_tool_rounds
    /\ Cardinality(SynthesisRequests) <= 1

\* the bound is met: two rounds and the synthesis request
C1_Witness ==
    /\ pc = "returned"
    /\ max_tool_rounds = 2
    /\ Cardinality(RoundRequests) = 2
    /\ Cardinality(SynthesisRequests) = 1

\* C2 as claimed: execute_tool is invoked at most N times in one call, also
\* when a reply carries several tool requests.
C2_AtMostNExecutions == Cardinality(Execs) <= max_tool_rounds

\* C2 as amended: execute_tool is invoked only in rounds 1..N and in each round
\* at most once per tool request of that round's reply; it is invoked at
\* most N times when every reply carries at most one tool request.
C2_ExecutionsPerRound ==
    /\ \A i \in Execs : trace[i].round \in 1..max_tool_rounds
    /\ \A r \in 1..max_tool_rounds : Cardinality(ExecsIn(r)) <= RequestedIn(r)
    /\ (\A i \in RoundReplies : trace[i].n <= 1) => Cardinality(Execs) <= max_tool_rounds

\* every request of two two-request rounds was executed: 4 executions, N = 2
C2_Witness ==
    /\ pc = "returned"
    /\ max_tool_rounds = 2
    /\ Cardinality(ExecsIn(1)) = 2
    /\ Cardinality(ExecsIn(2)) = 2

\* C3: when the reply of round n (1 <= n <= N) carries no tool request, the
\* call returns that reply's text at once: n completion requests in all, and
\* no tool executed in or after round n.
C3_AnswerEndsTheCall ==
    \A i \in RoundReplies :
        trace[i].n = 0 =>
            /\ trace[i].round \in 1..max_tool_rounds
            /\ i = Len(trace)
            /\ pc = "returned"
            /\ result = (IF trace[i].text = None THEN "" ELSE trace[i].text)
            /\ Cardinality(Requests) = trace[i].round
            /\ \A j \in Execs \cup Rejections : trace[j].round < trace[i].round

\* a null-content answer in round 2, after a round that executed a tool
C3_Witness ==
    /\ pc = "returned"
    /\ \E i \in RoundReplies : trace[i].n = 0 /\ trace[i].round = 2 /\ trace[i].text = None
    /\ ExecsIn(1) # {}

\* one tool request in each of the N rounds, each executed successfully
OneToolEachRound ==
    /\ Failures = {}
    /\ \A r \in 1..max_tool_rounds :
         /\ RequestedIn(r) = 1
         /\ \E i \in ExecsIn(r) : trace[i].kind = "ok"

\* N + 1 requests, N executions, and the answer is the synthesis reply's text
SynthesisAfterNRounds ==
    /\ Cardinality(Requests) = max_tool_rounds + 1
    /\ Cardinality(Execs) = max_tool_rounds
    /\ Len(trace) > 0
    /\ trace[Len(trace)].ev = "reply"
    /\ trace[Len(trace)].kind = "synthesis"
    /\ Len(trace) - 1 \in SynthesisRequests
    /\ result = (IF trace[Len(trace)].text = None THEN "" ELSE trace[Len(trace)].text)

C5_FailureEndsTheRounds ==
    \A i \in Failures :
        /\ current_round = trace[i].round
        /\ \A j \in (i + 1)..Len(trace) :
             /\ trace[j].ev = "request" => trace[j].kind = "synthesis"
             /\ trace[j].ev = "reply" => trace[j].kind = "synthesis" /\ j = Len(trace)
             /\ trace[j].ev \in {"exec", "rejected"} =>
                  /\ trace[j].round = trace[i].round
                  /\ \A k \in Requests : k < i \/ k > j
        /\ Cardinality({j \in Requests : j > i}) <= 1
        /\ pc = "returned" => Cardinality({j \in Requests : j > i}) = 1

\* a failure in round 1 of 2, and the call returned the synthesis answer
C5_Witness ==
    /\ pc = "returned"
    /\ max_tool_rounds = 2
    /\ \E i \in Failures : trace[i].round = 1
    /\ Cardinality(SynthesisRequests) = 1

\* the assistant messages of the transcript that carry tool requests
ToolRounds == {m \in DOMAIN messages : Len(messages[m].tool_calls) > 0}
ToolMessages == {m \in DOMAIN messages : messages[m].role = "tool"}
\* the index in the trace of the reply of round r
ReplyOf(r) == CHOOSE i \in RoundReplies : trace[i].round = r

\* C6 as claimed: a tool request whose argument payload is not a JSON object
\* (invalid JSON, or valid JSON of another type) is not run; exactly one tool
\* message with its call id and the fixed invalid-arguments text is appended,
\* and the round is marked failed.  (Stated for calls that were given a
\* registry, so that the payload alone decides the outcome.)
C6_MalformedArgumentsRejected ==
    \A m \in ToolRounds :
        \A k \in 1..Len(messages[m].tool_calls) :
            (/\ tool_manager # None
             /\ m + k <= Len(messages)
             /\ messages[m].tool_calls[k].arguments \in {BrokenArgs, ArrayArgs}) =>
                /\ messages[m + k] =
                     [role |-> "tool", content |-> "Error: Invalid tool arguments format",
                      tool_calls |-> <<>>,
                      tool_call_id |-> messages[m].tool_calls[k].id]
                /\ \A i \in Execs : trace[i].at # m + k
                /\ tool_execution_failed

\* C7: an exception raised by execute_tool does not leave generate_response:
\* exactly one tool message with the request's call id and the
\* execution-failed text with the exception's detail is appended, the round
\* is marked failed, and the call ends with an answer text; only a fault of
\* a completion request can end it otherwise.
C7_ToolExceptionContained ==
    /\ fault \in {None, "credential", "completion"}
    /\ Cardinality(ToolMessages) = Cardinality(Execs \cup Rejections)
    /\ \A i \in Execs :
         trace[i].kind = "raise" =>
            /\ trace[i].at \in DOMAIN messages
            /\ messages[trace[i].at] =
                 [role |-> "tool",
                  content |-> "Error: Tool execution failed - " \o trace[i].text,
                  tool_calls |-> <<>>,
                  tool_call_id |-> trace[i].id]
            /\ LET a == trace[ReplyOf(trace[i].round)].at
                   n == trace[ReplyOf(trace[i].round)].n IN
               /\ trace[i].at \in (a + 1)..(a + n)
               /\ Cardinality({m \in (a + 1)..(a + n) :
                     m \in DOMAIN messages /\ messages[m].tool_call_id = trace[i].id}) = 1
            /\ tool_execution_failed
            /\ pc = "raised" => trace[Len(trace)].ev = "fault" /\ Len(trace) > i + 1
            /\ pc = "returned" =>
                 /\ result # None
                 /\ trace[Len(trace)].ev = "reply"
                 /\ result = (IF trace[Len(trace)].text = None THEN ""
                              ELSE trace[Len(trace)].text)

\* a tool raised in round 1 and the call returned an answer
C7_Witness ==
    /\ pc = "returned"
    /\ result = "Here is the answer."
    /\ \E i \in Execs : trace[i].kind = "raise" /\ trace[i].round = 1

\* C8: when the loop ends with a tool result as the last message, one
\* synthesis request is issued, over the whole transcript; the call returns
\* the text of its reply, and nothing is executed for the tool requests that
\* reply may carry.
C8_OneSynthesisRequest ==
    \A i \in LoopEnds :
        trace[i].kind = "tool" =>
            /\ pc \in {"after", "returned", "raised"}
            /\ Len(messages) = trace[i].at
            /\ \A j \in SynthesisRequests : j = i + 1 /\ trace[j].sent = messages
            /\ \A j \in Execs \cup Rejections : j < i
            /\ pc = "returned" =>
                 /\ Cardinality(SynthesisRequests) = 1
                 /\ Len(trace) = i + 2
                 /\ trace[i + 2].ev = "reply"
                 /\ trace[i + 2].kind = "synthesis"
                 /\ result = (IF trace[i + 2].text = None THEN "" ELSE trace[i + 2].text)

\* the synthesis reply carried a tool request and its text was returned
C8_Witness ==
    /\ pc = "returned"
    /\ result = "Here is the answer."
    /\ trace[Len(trace)].kind = "synthesis"
    /\ trace[Len(trace)].n = 1

\* the number of tool requests of round r already gone through
Processed(r) ==
    IF pc = "for" /\ current_round = r THEN call_index - 1 ELSE RequestedIn(r)

\* C9: for a reply with tool requests r1..rk the assistant message is
\* appended, then one tool message per request, with the call ids of r1..rk
\* in that order, all before the next completion request; no request is
\* skipped, also after a failed one.
C9_OneToolMessagePerRequest ==
    \A i \in RoundReplies :
        trace[i].n > 0 =>
            LET a == trace[i].at
                k == trace[i].n
                calls == trace[i].calls
                done == Processed(trace[i].round) IN
            /\ Len(calls) = k
            /\ a \in DOMAIN messages
            /\ messages[a] = [role |-> "assistant", content |-> trace[i].text,
                              tool_calls |-> calls, tool_call_id |-> None]
            /\ Len(messages) >= a + done
            /\ \A p \in 1..done :
                 /\ messages[a + p].role = "tool"
                 /\ messages[a + p].tool_call_id = calls[p].id
                 /\ \E j \in Execs \cup Rejections :
                      /\ j > i
                      /\ trace[j].round = trace[i].round
                      /\ trace[j].at = a + p
                      /\ trace[j].id = calls[p].id
            /\ \A j \in Requests :
                 j > i =>
                    /\ done = k
                    /\ Len(trace[j].sent) >= a + k
                    /\ SubSeq(trace[j].sent, 1, a + k) = SubSeq(messages, 1, a + k)
                    /\ Len(trace[j].sent) > a + k => trace[j].sent[a + k + 1].role = "assistant"

\* the first of two requests failed, the second was executed, and the next
\* request was sent
C9_Witness ==
    \E i \in RoundReplies, f \in Rejections, e \in Execs, j \in Requests :
        /\ trace[i].n = 2
        /\ i < f /\ f < e /\ e < j
        /\ trace[f].round = trace[i].round /\ trace[f].id = "call_1"
        /\ trace[e].round = trace[i].round /\ trace[e].id = "call_2"

\* C10: when a completion request fails, or the credential for it cannot be
\* obtained, the fault leaves generate_response: no answer text is returned,
\* and the fault becomes neither a tool message nor a default answer.
C10_CompletionFaultPropagates ==
    /\ pc = "raised" => Len(trace) > 0 /\ trace[Len(trace)].ev = "fault"
    /\ \A i \in Faults :
         /\ i = Len(trace)
         /\ pc = "raised"
         /\ fault = trace[i].kind
         /\ result = None
         /\ Len(messages) = trace[i].at

\* the synthesis request failed after a round of tools
C10_Witness ==
    /\ pc = "raised"
    /\ fault = "completion"
    /\ SynthesisRequests # {}
    /\ Execs # {}

\* --------------------------------------------------- claims on the registry
\* the latest operation was execute_tool / register_tool
RanExecute == returned.op = "execute_tool"
RanRegister == returned.op = "register_tool"

\* C12: for every tool name that is not in the registry, execute_tool returns
\* a text that contains the name and "not found"; it does not raise and it
\* executes no tool.
C12_UnknownNameNotFound ==
    (RanExecute /\ returned.name \notin Names(registry)) =>
        /\ returned.raises = None
        /\ Contains(returned.text, returned.name)
        /\ Contains(returned.text, "not found")
        /\ returned.tool = None
        /\ ~returned.sent

\* an unknown name asked of a registry that holds both tools
C12_Witness ==
    /\ RanExecute
    /\ returned.name = UnknownToolName
    /\ Names(registry) = {SearchToolName, NutritionToolName}
    /\ returned.text = "Tool 'nonexistent_tool' not found"

\* C13 as claimed: registering under a name that is already taken by another
\* tool fails with an error, and every name stays with the first tool that was
\* registered under it.
C13_FirstRegistrationWins ==
    /\ \A i \in DOMAIN registry :
         Lookup(first_registered, registry[i].name) = registry[i].tool
    /\ (/\ RanRegister
        /\ returned.name \in Names(first_registered)
        /\ Lookup(first_registered, returned.name) # returned.tool)
         => returned.raises # None

\* C14: registering a tool whose definition has no name (none, or an empty
\* one) fails with the invalid-definition error and leaves the registry as it
\* was.
C14_NamelessToolRefused ==
    [][(returned'.op = "register_tool" /\ DefinitionName(returned'.tool) \in {None, ""})
         => (returned'.raises = NoNameError /\ registry' = registry)]_vars

\* a tool with an empty name was refused by a registry that holds a tool
C14_Witness ==
    /\ RanRegister
    /\ returned.tool = BLANK
    /\ returned.raises = NoNameError
    /\ Registered(registry) = {SEARCH}

\* the executed tools that are registered and hold citations
Holders ==
    {i \in DOMAIN executed :
       executed[i] \in Registered(registry) /\ HoldsSources(last_sources[executed[i]])}
MostRecentHolder == executed[CHOOSE i \in Holders : \A j \in Holders : j <= i]

\* C15 as claimed: when every registered tool that holds citations has been
\* executed through the registry, get_last_sources returns the buffer of the
\* one executed most recently.
C15_MostRecentlyExecutedWins ==
    (/\ Holders # {}
     /\ \A t \in Registered(registry) :
          HoldsSources(last_sources[t]) => \E i \in Holders : executed[i] = t)
      => get_last_sources(registry, last_sources) = last_sources[MostRecentHolder].list

SearchSucceeded ==
    /\ RanExecute /\ returned.tool = SEARCH /\ returned.raises = None
    /\ returned.results.error = None
    /\ Len(returned.results.documents) >= 1

\* C17: after a CourseSearchTool.execute with k >= 1 hits the buffer has
\* exactly k entries, entry i naming the course (and the lesson, if any) of
\* hit i, none with an empty text, whatever the buffer held before.
C17_BufferHoldsTheLatestHits ==
    SearchSucceeded =>
        LET hits == returned.results.metadata
            buffer == last_sources[SEARCH].list
        IN /\ Len(buffer) = Len(hits)
           /\ \A i \in DOMAIN buffer :
                /\ buffer[i].text # ""
                /\ Contains(buffer[i].text, hits[i].course_title)
                /\ IF HasKey(hits[i], "lesson_number")
                   THEN Contains(buffer[i].text, "Lesson " \o ToString(hits[i].lesson_number))
                   ELSE ~Contains(buffer[i].text, "Lesson")

\* a search with one hit after a search with two
C17_Witness ==
    /\ SearchSucceeded
    /\ returned.before = 2
    /\ Len(returned.results.documents) = 1
    /\ Len(last_sources[SEARCH].list) = 1

\* C19 as claimed: after execute on a NutritionTool without credential
\* provider the text contains "not configured", no request was sent, and the
\* tool holds no citations.
C19_NoCredentialProvider ==
    (RanExecute /\ returned.tool = NUTRITION_NO_AUTH) =>
        /\ Contains(returned.text, "not configured")
        /\ ~returned.sent
        /\ ~HoldsSources(last_sources[NUTRITION_NO_AUTH])

\* C20 as claimed: when the remote answer ends in a cited-sources block of
\* m >= 1 links, execute returns the answer without the block and the tool's
\* buffer holds m citations, the i-th with the text of link i and an absolute
\* URL.
C20_CitedSourcesExtracted ==
    (RanExecute /\ returned.tool = NUTRITION /\ returned.remote.kind = "answer"
       /\ returned.remote.links >= 1) =>
        LET buffer == last_sources[NUTRITION].list IN
        /\ returned.text = NutritionAnswer
        /\ Len(buffer) = returned.remote.links
        /\ \A i \in DOMAIN buffer :
             /\ buffer[i].text = LinkText(i)
             /\ HasKey(buffer[i], "url")
             /\ SubSeq(buffer[i].url, 1, 4) = "http"

\* ------------------------------- claims on generate_response with its tools
\* what NutritionTool.execute returns for a timeout, a transport error and a
\* missing credential provider
NutritionFaultTexts ==
    {TimeoutText, ConnectFailedText("Connection refused"), NotConfiguredText}

SearchProviderError ==
    /\ RanExecute /\ returned.tool = SEARCH /\ returned.raises = None
    /\ returned.results.error \notin {None, ""}
LatestExec == CHOOSE i \in Execs : \A j \in Execs : j <= i

\* C18: when the provider reports a named error, CourseSearchTool.execute
\* returns that very text, and the tool message of the request that asked for
\* the search carries it unchanged under that request's call id.
C18_ProviderErrorPassedOn ==
    SearchProviderError =>
        /\ returned.text = returned.results.error
        /\ Execs # {}
        /\ LET e == trace[LatestExec] IN
           /\ e.kind = "ok"
           /\ e.text = returned.results.error
           /\ messages[e.at] = ToolMessage(e.id, returned.results.error)
           /\ \E k \in DOMAIN trace[ReplyOf(e.round)].calls :
                /\ trace[ReplyOf(e.round)].calls[k].id = e.id
                /\ trace[ReplyOf(e.round)].calls[k].name = SearchToolName

\* a call that returned after the provider's error went to the model
C18_Witness ==
    /\ pc = "returned"
    /\ SearchProviderError
    /\ messages[Len(messages)] = ToolMessage(CallId(1), ProviderError)
    /\ Cardinality(SynthesisRequests) = 1

\* ------------------------------------------- claims on the tools' messages
StartsWith(s, prefix) == Len(s) >= Len(prefix) /\ SubSeq(s, 1, Len(prefix)) = prefix

\* the failure mode a remote outcome is an instance of, if it is one of the
\* four
FailureMode(remote) ==
    CASE remote.kind = "timeout" -> "timeout"
      [] remote.kind = "transport" -> "transport error"
      [] remote.kind \in {"bad_json", "bad_json_requests"} -> "malformed JSON"
      [] remote.kind \in {"unknown_shape", "non_dict"} -> "unrecognized shape"
      [] OTHER -> None

\* the error a text of NutritionTool.execute announces: the fixed wording
\* before any detail, or None for a text that announces no error
ErrorClass(text) ==
    CASE text = NotConfiguredText -> "not configured"
      [] text = TimeoutText -> "timed out"
      [] StartsWith(text, ConnectFailedText("")) -> "failed to connect"
      [] text = InvalidFormatText -> "invalid format"
      [] StartsWith(text, UnexpectedText("")) -> "unexpected"
      [] OTHER -> None

\* the text NutritionTool.execute gives for a remote outcome
NutritionText(remote) == NutritionTool_execute(TRUE, remote, NoAttribute).text

\* C21: NutritionTool.execute never raises, and a timeout, a transport error,
\* a malformed JSON body and an unrecognized response shape each yield an
\* error text, whose error is not the one of another of the four modes and
\* which is not the text of a successful answer.
C21_FailureModesTellApart ==
    (RanExecute /\ returned.tool = NUTRITION) =>
        /\ returned.raises = None
        /\ FailureMode(returned.remote) # None =>
             /\ StartsWith(returned.text, "Error:")
             /\ ErrorClass(returned.text) # None
             /\ \A other \in RemoteOutcomes :
                  /\ (FailureMode(other) \notin {None, FailureMode(returned.remote)}) =>
                       ErrorClass(NutritionText(other)) # ErrorClass(returned.text)
                  /\ other.kind = "answer" => NutritionText(other) # returned.text

\* C22: when the search provider returns an empty result set,
\* CourseSearchTool.execute returns a no-content-found message that names the
\* course whenever a course filter was given and the lesson whenever a lesson
\* filter was given, lesson 0 included.
C22_EmptyResultNamesTheFilters ==
    (/\ RanExecute /\ returned.tool = SEARCH /\ returned.raises = None
     /\ returned.results.error = None /\ is_empty(returned.results)) =>
        /\ StartsWith(returned.text, "No relevant content found")
        /\ HasKey(returned.args, "course_name") =>
             Contains(returned.text, "in course '" \o returned.args.course_name \o "'")
        /\ HasKey(returned.args, "lesson_number") =>
             Contains(returned.text, "in lesson " \o ToString(returned.args.lesson_number))


\* ------------------------------------------ claims on the tools offered
\* generate_response was given a tools list and a registry
BothSupplied == tools # None /\ tool_manager # None

RoundCost == MaxCalls + 2
StepsLeft ==
    CASE pc = "idle" -> (MaxRounds + 1) * RoundCost + 3
      [] pc = "while" -> (max_tool_rounds - current_round) * RoundCost + 2
      [] pc = "for" -> (max_tool_rounds - current_round) * RoundCost + 3
                         + (Len(assistant_message.tool_calls) + 1 - call_index)
      [] pc = "after" -> 1
      [] OTHER -> 0

\* C27: every generate_response call terminates, by returning an answer or by
\* propagating a completion fault, for every max_tool_rounds and every
\* sequence of replies and tool outcomes, provided each completion request
\* and each tool execution returns or raises: every step uses up one of a
\* finite number of steps left, and a call that began ends.
C27_EveryCallTerminates ==
    /\ [][StepsLeft' < StepsLeft]_vars
    /\ [](StepsLeft >= 0)
    /\ (pc # "idle") ~> Finished
    /\ [](Finished => (pc = "returned" /\ result # None) \/ (pc = "raised" /\ fault # None))

\* the model asked for tools in every reply, the synthesis reply included,
\* and the call returned after its two rounds
C27_Witness ==
    /\ pc = "returned"
    /\ max_tool_rounds = 2
    /\ Cardinality(RoundReplies) = 2
    /\ \A i \in DOMAIN trace : trace[i].ev = "reply" => trace[i].n >= 1
    /\ trace[Len(trace)].ev = "reply" /\ trace[Len(trace)].kind = "synthesis"


\* ------------------------------------------- claims on concurrent calls
Began(c) == thread[c].pc # "idle"
\* the texts a tool message of caller c can carry
ToolTextsFor(c) ==
    {ExecutionFailedText(SearchCrashDetail), NoContentText([query |-> QueryOf(c)]),
     _format_results(HitsFor(c), <<>>).text}
\* m is a message of caller c's own call
OwnMessage(c, m) ==
    CASE m.role = "system" -> m.content = SYSTEM_PROMPT
      [] m.role = "user" -> m.content = QueryOf(c)
      [] m.role = "assistant" ->
           /\ Len(m.tool_calls) = 1
           /\ StartsWith(m.tool_calls[1].id, "call_" \o c)
      [] m.role = "tool" ->
           /\ StartsWith(m.tool_call_id, "call_" \o c)
           /\ m.content \in ToolTextsFor(c)
      [] OTHER -> FALSE
CountRole(msgs, role) == Cardinality({i \in DOMAIN msgs : msgs[i].role = role})

\* C25: two generate_response calls running concurrently against the same
\* generator and registry do not share message sequence or round state: under
\* every interleaving each call's transcript holds only its own system and
\* user messages, assistant replies and tool results, in the number its own
\* steps produced, and its round count and failure flag are the ones its own
\* steps left.
C25_CallsDoNotShareState ==
    \A c \in Callers :
        Began(c) =>
            LET own == Frame(c) IN
            /\ \A i \in DOMAIN own.messages : OwnMessage(c, own.messages[i])
            /\ SubSeq(own.messages, 1, 2) = InitialMessages(QueryOf(c), None)
            /\ own.current_round = thread[c].begun
            /\ own.tool_execution_failed = thread[c].failed
            /\ CountRole(own.messages, "assistant") \in {thread[c].begun - 1, thread[c].begun}
            /\ CountRole(own.messages, "tool") <= CountRole(own.messages, "assistant")

\* both calls are under way, in different rounds and with different flags
C25_Witness ==
    /\ thread["A"].pc = "store" /\ Frame("A").current_round = 2
    /\ ~Frame("A").tool_execution_failed
    /\ thread["B"].pc = "endfor" /\ Frame("B").current_round = 1
    /\ Frame("B").tool_execution_failed
    /\ Len(Frame("A").messages) = 5 /\ Len(Frame("B").messages) = 4

\* no execution of the tool is under way
NoExecutionUnderWay == \A c \in Callers : thread[c].pc \notin {"execute", "store", "return"}
SearchBuffer == last_sources[SEARCH].list

\* C26 as claimed: once the executions are over the buffer holds the
\* citations of the execution that finished last.
C26_LastFinishedExecutionWins ==
    (NoExecutionUnderWay /\ last_returned # None) =>
        SearchBuffer = SourcesOf(HitsFor(last_returned))

\* C26: when two concurrent calls execute the same tool instance, the buffer
\* holds the citations of the execution that assigned last_sources last,
\* which need not be the one that returned last; what a caller reads after
\* its own call is what the buffer holds then, its own citations or the
\* other call's.
C26_LastStoredExecutionWins ==
    /\ last_stored # None => SearchBuffer = SourcesOf(HitsFor(last_stored))
    /\ last_stored = None => SearchBuffer = <<>>
    /\ \A c \in Callers :
         thread[c].pc = "done" =>
             \/ thread[c].read = <<>>
             \/ \E d \in Callers : thread[c].read = SourcesOf(HitsFor(d))

\* a caller whose own execution found hits reads, after its call returned,
\* the citations produced for the other call
C26_Witness ==
    \E c \in Callers :
        /\ thread[c].pc = "done"
        /\ \E i \in DOMAIN Frame(c).messages :
             Frame(c).messages[i].content = _format_results(HitsFor(c), <<>>).text
        /\ thread[c].read = SourcesOf(HitsFor(Other(c)))
        /\ thread[c].read # SourcesOf(HitsFor(c))


\* ------------------------------------------- claims on the TokenManager
\* C28: get_token returns the cached token without contacting the token
\* endpoint whenever a token is cached and the current time is earlier than
\* expires_at minus 300 seconds, and contacts the endpoint exactly when no
\* token is cached or the current time is at or past expires_at minus 300.
C28_CachedUnlessDueForRefresh ==
    /\ latest.op = "cached" =>
         /\ latest.seen # NoToken
         /\ latest.at < latest.seen.expires_at - 300
         /\ latest.token = latest.seen.access_token
    /\ latest.op = "request" =>
         \/ latest.seen = NoToken
         \/ latest.at >= latest.seen.expires_at - 300
    /\ \A t \in Threads :
         (caller[t] = "acquire" /\ lock = None) =>
             (ENABLED ReturnCached(t) <=>
                  (cached # NoToken /\ now < cached.expires_at - 300))

\* a token fetched earlier is returned from the cache after time has passed
C28_Witness ==
    /\ latest.op = "cached"
    /\ latest.at = ClockStep
    /\ issued = 1
    /\ latest.token = AccessToken(1)

\* C29: every token returned by get_token is unexpired at the moment it is
\* returned, whatever expires_in the endpoint reported.
C29_ReturnedTokenUnexpired ==
    latest.op \in {"cached", "fetched"} => latest.at < latest.expires_at

Fetching == {t \in Threads : caller[t] = "fetching"}

C31_FailedFetchRaisesAndReleases ==
    latest.op = "raised" =>
        /\ latest.raised # None
        /\ latest.token = None
        /\ cached = latest.seen
        /\ lock = None
        /\ \A t \in Threads :
             (caller[t] = "acquire" /\ issued < MaxFetches) =>
                 (ENABLED StartFetch(t) \/ ENABLED ReturnCached(t))

\* a refresh failed, the token cached before is still there, and the next
\* caller stands at the free lock
C31_Witness ==
    /\ latest.op = "raised"
    /\ latest.seen # NoToken
    /\ cached = latest.seen
    /\ lock = None
    /\ \E t \in Threads : caller[t] = "acquire"

\* ------------------------------------------------------------------ C32
\* the sessions a token stands for: created by a successful authenticate, not
\* logged out, and not past their expires_at at the given hour
GoodSessions(token, hour) ==
    {x \in sessions_log : /\ x.session_token = token
                          /\ token \notin logged_out
                          /\ hour <= x.expires_at}

\* C32: validate_session(t) returns u exactly when t was returned by an earlier
\* successful authenticate(u, password), t was not logged out and the time is not
\* later than the session's expires_at, and None in every other case; an
\* authenticate for an unknown user or with a wrong password returns None and
\* creates no session.
C32_ValidateKnowsExactlyTheLiveSessions ==
    /\ authret.op = "validate_session" =>
          /\ \A u \in Usernames :
                authret.result = u <=>
                    \E x \in GoodSessions(authret.token, authret.at) : x.username = u
          /\ authret.result \in Usernames \cup {None}
    /\ authret.op = "authenticate" =>
          /\ authret.result = None <=> originals[authret.username] # authret.password
          /\ authret.result # None =>
                \E x \in sessions_log : /\ x.session_token = authret.result
                                        /\ x.username = authret.username
    /\ auth_sessions \subseteq sessions_log

\* a session validated at its last hour, and a failed attempt while one is held
C32_Witness ==
    /\ authret.op = "validate_session"
    /\ authret.result = "demo"
    /\ \E x \in sessions_log : /\ x.session_token = authret.token
                               /\ authret.at = x.expires_at
    /\ logged_out # {}

\* ------------------------------------------------------------------ C33
\* the step is a call of the named operation with the given token
AuthStep(op, token) ==
    /\ authret' # authret
    /\ authret'.op = op
    /\ authret'.token = token

\* C33: once logout(t) has returned True, every later validate_session(t) returns
\* None and every later logout(t) returns False; a logout that returns True takes
\* away the session of its token only, so every other session, those of the same
\* user included, is still stored and is still validated as its user.
C33_LogoutEndsOneSessionForGood ==
    /\ [][/\ \A t \in logged_out :
               /\ AuthStep("validate_session", t) => authret'.result = None
               /\ AuthStep("logout", t) => authret'.result = "False"
          /\ \A t \in PresentedTokens :
               (AuthStep("logout", t) /\ authret'.result = "True") =>
                   /\ t \in logged_out'
                   /\ \A x \in auth_sessions :
                         x.session_token # t => x \in auth_sessions'
         ]_vars
    /\ [](\A x \in sessions_log :
            (x.session_token \notin logged_out /\ ~SessionExpired(x, clock)) =>
                /\ x \in auth_sessions
                /\ ENABLED (/\ ValidateSession(x.session_token)
                            /\ authret'.result = x.username))

\* a second logout of a token refused while another session of its user is stored
C33_Witness ==
    /\ authret.op = "logout"
    /\ authret.result = "False"
    /\ authret.token \in logged_out
    /\ \E x \in sessions_log, y \in auth_sessions :
          /\ x.session_token = authret.token
          /\ y.username = x.username
          /\ y.session_token # x.session_token

\* ------------------------------------------------------------------ C34
\* C34: create_user for a username that exists returns False and leaves the
\* user's stored password hash and every session as they were; after it the
\* password the user was created with still authenticates and the refused one,
\* when it is another password, does not.
C34_RefusedCreateChangesNothing ==
    /\ [][(/\ authret' # authret
           /\ authret'.op = "create_user"
           /\ users[authret'.username] # NoUser) =>
              /\ authret'.result = "False"
              /\ users' = users
              /\ auth_sessions' = auth_sessions
         ]_vars
    /\ []((authret.op = "create_user" /\ authret.result = "False") =>
            LET u == authret.username
            IN  /\ users[u] = _hash_password(originals[u])
                /\ minted < MaxSessions =>
                      ENABLED (/\ Authenticate(u, originals[u])
                               /\ authret'.result # None)
                /\ authret.password # originals[u] =>
                      /\ ENABLED (/\ Authenticate(u, authret.password)
                                  /\ authret'.result = None)
                      /\ ~ENABLED (/\ Authenticate(u, authret.password)
                                   /\ authret'.result # None))

\* a second create_user for demo with another password, refused while demo holds
\* a session
C34_Witness ==
    /\ authret.op = "create_user"
    /\ authret.result = "False"
    /\ authret.username = "demo"
    /\ authret.password # originals["demo"]
    /\ \E x \in auth_sessions : x.username = "demo"

\* ------------------------------------------------------------------ C35
IsPrefix(s, t) == Len(s) <= Len(t) /\ SubSeq(t, 1, Len(s)) = s

\* the transcript the call started with: the system prompt, at most one
\* history note, the user's query
IsInitial(msgs) == \E history \in Histories : msgs = InitialMessages(Query, history)

\* C35: within one generate_response call the message sequence only grows at its
\* end: it starts as [system prompt, optional history note, user query], every
\* step leaves it alone or appends one message, and the sequence sent with each
\* completion request extends the one sent with the request before it.
C35_TranscriptIsAppendOnly ==
    /\ [][pc # "idle" =>
            \/ messages' = messages
            \/ /\ Len(messages') = Len(messages) + 1
               /\ IsPrefix(messages, messages')]_vars
    /\ [](/\ pc # "idle" =>
               /\ \E n \in 2..3 : n <= Len(messages) /\ IsInitial(SubSeq(messages, 1, n))
               /\ messages[1] = Message("system", SYSTEM_PROMPT)
               /\ \A i \in Requests : IsPrefix(trace[i].sent, messages)
          /\ \A i, j \in Requests : i < j => IsPrefix(trace[i].sent, trace[j].sent)
          /\ \A i \in Requests :
               (\A j \in Requests : i <= j) => IsInitial(trace[i].sent))

\* three requests sent in one call, begun with a history note, each longer than
\* the one before
C35_Witness ==
    /\ Cardinality(Requests) = 3
    /\ \A i, j \in Requests : i < j => Len(trace[i].sent) < Len(trace[j].sent)
    /\ \E i \in Requests : Len(trace[i].sent) = 3 /\ trace[i].sent[3].role = "user"

\* ------------------------------------------------------------------ C36
\* the executions of requests that named the tool nobody registered
UnknownToolExecs ==
    {i \in Execs : \E k \in DOMAIN trace[ReplyOf(trace[i].round)].calls :
                      LET call == trace[ReplyOf(trace[i].round)].calls[k]
                      IN  call.id = trace[i].id /\ call.name = UnknownToolName}

\* the round under way asked for the unknown tool and its for loop is over
UnknownToolRoundOver ==
    /\ current_round >= 1
    /\ ExecsIn(current_round) # {}
    /\ ExecsIn(current_round) \subseteq UnknownToolExecs
    /\ Cardinality(ExecsIn(current_round)) = RequestedIn(current_round)

\* C36: a tool request that names a tool which is not registered does not mark
\* the round failed: execute_tool returns the not-found text, it becomes the tool
\* message for that call id, and when rounds are left and no other call of the
\* round failed the loop goes on to the next round, which sends its request and
\* has its tool requests executed by the same registry.
C36_UnknownToolDoesNotFailTheRound ==
    /\ \A i \in UnknownToolExecs :
          /\ trace[i].kind = "ok"
          /\ trace[i].text = "Tool 'nonexistent_tool' not found"
          /\ messages[trace[i].at] = ToolMessage(trace[i].id, trace[i].text)
    /\ (UnknownToolRoundOver /\ pc = "for") =>
          /\ ~tool_execution_failed
          /\ current_round < max_tool_rounds =>
                (ENABLED NextRound /\ ~ENABLED BreakLoop)
    /\ (UnknownToolRoundOver /\ pc = "while") =>
          /\ current_round < max_tool_rounds
          /\ tool_manager # None
          /\ ENABLED RoundNamedToolRequest
    /\ \A i \in UnknownToolExecs : \A e \in LoopEnds :
          (trace[e].round = trace[i].round /\ trace[i].round < max_tool_rounds) =>
              \E f \in Failures : trace[f].round = trace[i].round

\* the unknown tool asked for in round 1 and a tool executed in round 2
C36_Witness ==
    /\ \E i \in UnknownToolExecs : trace[i].round = 1
    /\ \E i \in Execs \ UnknownToolExecs : trace[i].round = 2 /\ trace[i].kind = "ok"

\* ------------------------------------------------------------------ C37
Replies == {i \in DOMAIN trace : trace[i].ev = "reply"}
LastReply == CHOOSE i \in Replies : \A j \in Replies : j <= i

\* C37: for max_tool_rounds >= 1, whenever generate_response returns, at least
\* one completion request was made and the returned text is the content of the
\* last completion reply of the call, "" when that content is null; the return
\* of the last message's content is never taken, so the text is not that of a
\* system, user or tool message.
C37_ReturnsTheLastReply ==
    /\ (pc = "returned" /\ max_tool_rounds >= 1) =>
          /\ Requests # {}
          /\ Replies # {}
          /\ LastReply = Len(trace)
          /\ \A i \in Requests : i < LastReply
          /\ result = (IF trace[LastReply].text = None THEN "" ELSE trace[LastReply].text)
          /\ \A m \in DOMAIN messages :
                messages[m].role \in {"system", "user", "tool"} =>
                    result # messages[m].content
    /\ (pc = "after" /\ max_tool_rounds >= 1) =>
          (NeedsSynthesis(messages) /\ ~ENABLED ReturnLastMessage)

\* a call that ran tools and returned "" for a synthesis reply without content
C37_Witness ==
    /\ pc = "returned"
    /\ max_tool_rounds >= 1
    /\ Execs # {}
    /\ trace[Len(trace)].ev = "reply"
    /\ trace[Len(trace)].kind = "synthesis"
    /\ trace[Len(trace)].text = None
    /\ result = ""

SearchGaveNothing(r) ==
    /\ r.op = "execute_tool"
    /\ r.tool = SEARCH
    /\ r.raises = None
    /\ (r.results.error \notin {None, ""} \/ is_empty(r.results))

\* C39: a CourseSearchTool.execute whose provider result is a named error or an
\* empty result set leaves the tool's citation buffer (and every other tool's)
\* as it was, so get_last_sources returns after it what it returned before it:
\* the citations of the earlier successful search when the search tool is the
\* one it reads.
C39_FruitlessSearchKeepsCitations ==
    /\ [][(returned' # returned /\ SearchGaveNothing(returned')) =>
             /\ last_sources' = last_sources
             /\ get_last_sources(registry', last_sources')
                  = get_last_sources(registry, last_sources)]_vars
    /\ [](SearchGaveNothing(returned) =>
             /\ last_sources[SEARCH] = returned.held
             /\ Len(returned.held.list) = returned.before
             /\ (/\ HoldsSources(returned.held)
                 /\ \A i \in DOMAIN registry :
                       HoldsSources(last_sources[registry[i].tool]) =>
                           registry[i].tool = SEARCH) =>
                   get_last_sources(registry, last_sources) = returned.held.list)

\* a search without hits after one that left two citations, which
\* get_last_sources still returns
C39_Witness ==
    /\ SearchGaveNothing(returned)
    /\ is_empty(returned.results)
    /\ returned.results.error = None
    /\ Len(last_sources[SEARCH].list) = 2
    /\ last_sources[SEARCH].list \in {SourcesOf(r) : r \in ProviderResults}
    /\ get_last_sources(registry, last_sources) = last_sources[SEARCH].list

====
